---- MODULE Spec2Model ----
(***************************************************************************)
(* A model of PyAppEnv (pyapp_env/classes.py, secure_value.py, main.py,    *)
(* global_vars.py): the typed-value pipeline of the data-type descriptors, *)
(* the masking proxy built by CreateSecureValue, the immutable EnvConfig   *)
(* collection and the loading of an environment's configuration.           *)
(*                                                                         *)
(* Python values are records [t |-> <type name>, v |-> <payload>]:         *)
(*   str    v = sequence of one-character strings                          *)
(*   int    v = integer            bool   v = BOOLEAN                      *)
(*   float  v = the number in tenths (15 is 1.5)                           *)
(*   list, tuple, bytes   v = sequence of integers                         *)
(*   dict   v = sequence of <<key, value>> pairs of integers               *)
(*   set    v = set of integers                                            *)
(*   custom v = the instance's attribute test_value (a sequence), or       *)
(*              <<-1>> for an instance whose __init__ never ran            *)
(*   function, type, iterator   v = a name                                 *)
(* A masking proxy (an instance of the run-time class SecureValue) is      *)
(*   [t |-> "SecureValue", form, base, data, orig]                         *)
(* with form the branch of CreateSecureValue that built it, base the       *)
(* built-in class it extends, data the native value the instance itself    *)
(* holds (what base.__new__ produced) and orig its _original_data.         *)
(***************************************************************************)
EXTENDS Integers, Sequences, FiniteSets, TLC

VARIABLES
    glb_show_secured_values,        \* global_vars.show_secured_values.value
    glb_make_secured_values_mutable,\* global_vars.make_secured_values_mutable.value
    logger_set,                     \* builtins.pyappenv_logger has been installed
    descs,                          \* the descriptor objects, by identity
    call,                           \* the last __set_value__ call since the flags were assigned
    cur,                            \* a value the client holds and operates on
    op,                             \* the most recent member call on cur and its outcome
    envs,                           \* the BaseEnvironment objects, by identity
    cfgop                           \* the most recent EnvConfig operation and its outcome

vars == <<glb_show_secured_values, glb_make_secured_values_mutable, logger_set,
          descs, call, cur, op, envs, cfgop>>

-----------------------------------------------------------------------------
(* Bounds of the model *)

\* longest chain of member calls explored on a value the client holds
MaxChain == 2
\* deepest nesting of proxies explored: a proxy of a proxy
MaxDepth == 2
\* how many times one environment is loaded
MaxLoads == 2
\* the longest run of digits whose value the model holds as a number
MaxIntDigits == 8

-----------------------------------------------------------------------------
(* Python values *)

PyStr(s) == [t |-> "str", v |-> s]
PyInt(n) == [t |-> "int", v |-> n]
PyFloat(tenths) == [t |-> "float", v |-> tenths]
PyBool(b) == [t |-> "bool", v |-> b]
PyList(s) == [t |-> "list", v |-> s]
PyTuple(s) == [t |-> "tuple", v |-> s]
PyBytes(s) == [t |-> "bytes", v |-> s]
PyDict(s) == [t |-> "dict", v |-> s]
PySet(s) == [t |-> "set", v |-> s]
PyCustom(s) == [t |-> "custom", v |-> s]
PyFunction(n) == [t |-> "function", v |-> n]
PyClass(n) == [t |-> "type", v |-> n]
PyIterator(n) == [t |-> "iterator", v |-> n]
PyNone == [t |-> "NoneType", v |-> "None"]
PyNotImplemented == [t |-> "NotImplementedType", v |-> "NotImplemented"]
\* ConfigValue(value_validator) for the descriptor value_validator of identity id:
\* the cell keeps the descriptor and a copy of its value attribute; passed records
\* whether the __set_value__ call that came before the construction returned
ConfigValue(id, value_validator, passed) ==
    [t |-> "ConfigValue", validator |-> id, value |-> value_validator.value, passed |-> passed]

\* the redaction marker "******"
MASK == <<"*", "*", "*", "*", "*", "*">>
NOT_SET == <<"N", "O", "T", "_", "S", "E", "T">>

IsProxy(x) == x.t = "SecureValue"

RECURSIVE Depth(_)
\* how many proxies are wrapped around the innermost original
Depth(x) == IF IsProxy(x) THEN 1 + Depth(x.orig) ELSE 0

\* type(x).__name__
TypeName(x) == x.t

\* the built-in class a value's own data belongs to (a proxy extends its base)
NativeClass(x) == IF IsProxy(x) THEN x.base ELSE IF x.t = "bool" THEN "int" ELSE x.t

\* the native value an object itself holds (a proxy: what base.__new__ made)
NativeData(x) == IF IsProxy(x) THEN x.data ELSE x

IsNumber(x) == x.t \in {"int", "float", "bool"}

\* a number in tenths, so that 1 == 1.0 == True as Python compares them
Tenths(x) == IF x.t = "bool" THEN (IF x.v THEN 10 ELSE 0)
             ELSE IF x.t = "int" THEN 10 * x.v
             ELSE x.v

\* the integer a bool or int denotes
IntOf(x) == IF x.t = "bool" THEN (IF x.v THEN 1 ELSE 0) ELSE x.v

\* a == b on native (unwrapped) values
NativeEq(a, b) ==
    IF IsNumber(a) /\ IsNumber(b) THEN Tenths(a) = Tenths(b)
    ELSE a.t = b.t /\ a.v = b.v

\* str(x) of a value that defines no display of its own: a str is its own text,
\* anything else has the ordinary text of its type, kept symbolic
NativeStr(x) == IF x.t = "str" THEN x ELSE [t |-> "strof", v |-> x]

\* the outcome of a call: a returned value, or a raised exception
Return(x) == [err |-> "none", value |-> x]
Raise(e) == [err |-> e, value |-> PyNone]

-----------------------------------------------------------------------------
(* secure_value.py *)

compariosn_methods_with_type_error == {"__lt__", "__le__", "__gt__", "__ge__"}
compariosn_methods_with_return == {"__eq__", "__ne__"}

\* the classes CPython refuses to subclass (class Test(class_name) raises TypeError)
FinalClasses == {"bool", "NoneType", "function", "NotImplementedType", "iterator"}

check_inheritable_class(class_name) == class_name \notin FinalClasses

\* the list of secure_value.py lines 134-153, for the types of the model
ImmutableBuiltins == {"NoneType", "int", "float", "bool", "str", "tuple", "bytes",
                      "type", "NotImplementedType", "function"}

\* isinstance(value, ignored_class) with ignored_class=ConfigValue, as every caller passes
IsIgnoredClass(value) == value.t = "ConfigValue"

\* value_class of the lines 80-83: bool is replaced by int
value_class(value) == IF value.t = "bool" THEN "int" ELSE value.t

\* what cls.__new__(cls, value) leaves in the new instance of a subclass of base:
\* the immutable built-ins take the value, the others ignore the argument
NewWithValue(base, value) ==
    CASE base = "str" -> IF IsProxy(value) THEN PyStr(MASK) ELSE value
      [] base = "int" -> PyInt(IntOf(NativeData(value)))
      [] base \in {"float", "tuple", "bytes"} -> NativeData(value)
      [] base = "list" -> PyList(<<>>)
      [] base = "dict" -> PyDict(<<>>)
      [] base = "set" -> PySet({})
      [] OTHER -> PyCustom(<<-1>>)

\* what cls.__new__(cls) leaves in the new instance: the empty value of the base
NewEmpty(base) ==
    CASE base = "str" -> PyStr(<<>>)
      [] base = "int" -> PyInt(0)
      [] base = "float" -> PyFloat(0)
      [] base = "tuple" -> PyTuple(<<>>)
      [] base = "bytes" -> PyBytes(<<>>)
      [] base = "list" -> PyList(<<>>)
      [] base = "dict" -> PyDict(<<>>)
      [] base = "set" -> PySet({})
      [] OTHER -> PyCustom(<<-1>>)

SecureValue(form, base, data, orig) ==
    [t |-> "SecureValue", form |-> form, base |-> base, data |-> data, orig |-> orig]

\* lines 85-105: class SecureValue(value_class) with its own __init__, then SecureValue(value)
ImmutableForm(value) ==
    IF value.t = "type" THEN Raise("TypeError")            \* type.__new__ wants 3 arguments
    ELSE IF IsProxy(value) /\ value.form = "mutable"
    THEN Raise("AttributeError")                          \* the forwarded __setattr__ fails
    ELSE Return(SecureValue("immutable", NativeClass(value),
                            NewWithValue(NativeClass(value), value), value))

\* lines 107-191: the forwarding class built with type(), instantiated without the value,
\* then the non-callable attributes of the value copied onto the instance
MutableForm(value) ==
    IF value.t = "type" THEN Raise("TypeError")            \* type.mro() of line 130
    ELSE IF IsProxy(value) THEN Raise("AttributeError")   \* setattr of a copied attribute
    ELSE IF value.t = "set" THEN Raise("AttributeError")  \* __hash__ of a set is read-only
    ELSE Return(SecureValue("mutable", NativeClass(value),
                            IF value.t = "custom" THEN value
                            ELSE NewEmpty(NativeClass(value)), value))

\* a faulty CreateSecureValue that never wraps (C5_Masked fails with it)
CreateNoProxy(value, is_mutable) == Return(value)

CreateSecureValue(value, is_mutable) ==
    IF IsIgnoredClass(value) \/ value.t = "NoneType" THEN Return(value)
    ELSE IF ~check_inheritable_class(IF IsProxy(value) THEN "SecureValue" ELSE value_class(value))
    THEN Return(value)
    ELSE IF ~is_mutable THEN ImmutableForm(value)
    ELSE MutableForm(value)

\* SecureValue.__str__ / __repr__ (lines 95-99 and 165-166), else the value's own display
Str(x) == IF IsProxy(x) THEN PyStr(MASK) ELSE NativeStr(x)
Repr(x) == IF IsProxy(x) THEN PyStr(MASK) ELSE NativeStr(x)

\* hasattr(x, "unmasked") and x.unmasked (lines 65-66 and 101-103)
HasUnmasked(x) == IsProxy(x)
unmasked(x) == x.orig

-----------------------------------------------------------------------------
(* The members of the built-in values that the model calls.  Each returns
   [err, value, self]: the exception raised or "none", the value returned, and
   the receiver after the call (append changes it in place). *)

Returns(x, self) == [err |-> "none", value |-> x, self |-> self]
Raises(e, self) == [err |-> e, value |-> PyNone, self |-> self]

SeqTypes == {"str", "list", "tuple", "bytes"}
SizedTypes == SeqTypes \cup {"dict", "set", "custom"}

\* the printable ASCII characters in code order, from " " (32) to "~" (126); the
\* grave accent (96), which a TLA+ string cannot hold, is written out
Alphabet == <<" ", "!", "\"", "#", "$", "%", "&", "'", "(", ")", "*", "+", ",", "-", ".", "/",
              "0", "1", "2", "3", "4", "5", "6", "7", "8", "9", ":", ";", "<", "=", ">", "?",
              "@", "A", "B", "C", "D", "E", "F", "G", "H", "I", "J", "K", "L", "M", "N", "O",
              "P", "Q", "R", "S", "T", "U", "V", "W", "X", "Y", "Z", "[", "\\", "]", "^", "_",
              "(grave)", "a", "b", "c", "d", "e", "f", "g", "h", "i", "j", "k", "l", "m", "n", "o",
              "p", "q", "r", "s", "t", "u", "v", "w", "x", "y", "z", "{", "|", "}", "~">>

\* ord(c)
Ord(c) == 31 + (CHOOSE i \in 1..Len(Alphabet) : Alphabet[i] = c)

RECURSIVE SeqLess(_, _, _)
\* a < b on sequences, lexicographically: of characters (text) or of integers
SeqLess(a, b, text) ==
    IF b = <<>> THEN FALSE
    ELSE IF a = <<>> THEN TRUE
    ELSE LET x == IF text THEN Ord(Head(a)) ELSE Head(a)
             y == IF text THEN Ord(Head(b)) ELSE Head(b)
         IN  IF x /= y THEN x < y ELSE SeqLess(Tail(a), Tail(b), text)

\* len(x) of a sized value
PyLen(x) == IF x.t = "set" THEN Cardinality(x.v) ELSE Len(x.v)

\* does the class of the value define the member at all
HasMember(x, name) ==
    CASE name = "__add__" -> x.t \in SeqTypes \cup {"int", "bool", "float", "custom"}
      [] name = "__len__" -> x.t \in SizedTypes
      [] name = "__iter__" -> x.t \in SeqTypes \cup {"dict", "set"}
      [] name = "append" -> x.t = "list"
      [] name \in {"__eq__", "__ne__", "__lt__", "__le__", "__gt__", "__ge__"} -> TRUE
      [] OTHER -> FALSE

NativeAdd(x, arg) ==
    CASE x.t \in SeqTypes ->
            IF arg.t = x.t THEN Returns([t |-> x.t, v |-> x.v \o arg.v], x)
            ELSE Raises("TypeError", x)
      [] x.t \in {"int", "bool"} ->
            IF arg.t \in {"int", "bool"} THEN Returns(PyInt(IntOf(x) + IntOf(arg)), x)
            ELSE Returns(PyNotImplemented, x)
      [] x.t = "float" ->
            IF IsNumber(arg) THEN Returns(PyFloat(Tenths(x) + Tenths(arg)), x)
            ELSE Returns(PyNotImplemented, x)
      [] OTHER ->   \* the CustomClass of the tests: self.test_value + value.test_value
            IF x.v = <<-1>> \/ arg.t /= "custom" \/ arg.v = <<-1>>
            THEN Raises("AttributeError", x)
            ELSE Returns(PyList(x.v \o arg.v), x)

NativeEqMember(x, arg) ==
    CASE x.t \in {"int", "bool"} ->
            IF arg.t \in {"int", "bool"} THEN Returns(PyBool(IntOf(x) = IntOf(arg)), x)
            ELSE Returns(PyNotImplemented, x)
      [] x.t = "float" ->
            IF IsNumber(arg) THEN Returns(PyBool(Tenths(x) = Tenths(arg)), x)
            ELSE Returns(PyNotImplemented, x)
      [] x.t \in SeqTypes \cup {"dict", "set"} ->
            IF arg.t = x.t THEN Returns(PyBool(x.v = arg.v), x)
            ELSE Returns(PyNotImplemented, x)
      [] OTHER ->   \* object.__eq__: identity
            IF arg = x THEN Returns(PyBool(TRUE), x) ELSE Returns(PyNotImplemented, x)

NativeLt(x, arg) ==
    CASE x.t \in {"int", "bool"} ->
            IF arg.t \in {"int", "bool"} THEN Returns(PyBool(IntOf(x) < IntOf(arg)), x)
            ELSE Returns(PyNotImplemented, x)
      [] x.t = "float" ->
            IF IsNumber(arg) THEN Returns(PyBool(Tenths(x) < Tenths(arg)), x)
            ELSE Returns(PyNotImplemented, x)
      [] x.t \in SeqTypes ->
            IF arg.t = x.t THEN Returns(PyBool(SeqLess(x.v, arg.v, x.t = "str")), x)
            ELSE Returns(PyNotImplemented, x)
      [] OTHER -> Returns(PyNotImplemented, x)

\* x.__ne__(arg): the types of the model invert __eq__ and pass NotImplemented on
NativeNeMember(x, arg) ==
    IF NativeEqMember(x, arg).value.t = "bool"
    THEN Returns(PyBool(~NativeEqMember(x, arg).value.v), x)
    ELSE NativeEqMember(x, arg)

\* a < b for two numbers or two sequences of one type
NativeLess(a, b) ==
    IF IsNumber(a) THEN Tenths(a) < Tenths(b) ELSE SeqLess(a.v, b.v, a.t = "str")

\* x.__le__(arg), x.__gt__(arg), x.__ge__(arg): defined between the operands
\* __lt__ is defined between, over the same total order
NativeOrdering(x, name, arg) ==
    IF NativeLt(x, arg).value.t /= "bool" THEN NativeLt(x, arg)
    ELSE CASE name = "__le__" -> Returns(PyBool(~NativeLess(arg, x)), x)
           [] name = "__gt__" -> Returns(PyBool(NativeLess(arg, x)), x)
           [] OTHER -> Returns(PyBool(~NativeLess(x, arg)), x)

\* getattr(x, name)(arg) on a native value
NativeMember(x, name, arg) ==
    IF ~HasMember(x, name) THEN Raises("AttributeError", x)
    ELSE CASE name = "__add__" -> NativeAdd(x, arg)
           [] name = "__eq__" -> NativeEqMember(x, arg)
           [] name = "__ne__" -> NativeNeMember(x, arg)
           [] name = "__lt__" -> NativeLt(x, arg)
           [] name \in {"__le__", "__gt__", "__ge__"} -> NativeOrdering(x, name, arg)
           [] name = "__len__" ->
                IF x.t = "custom" /\ x.v = <<-1>> THEN Raises("AttributeError", x)
                ELSE Returns(PyInt(PyLen(x)), x)
           [] name = "__iter__" -> Returns(PyIterator(x.t), x)
           [] OTHER -> Returns(PyNone, PyList(Append(x.v, IntOf(NativeData(arg)))))

\* the default ignored_method of CreateSecureValue (lines 62-63)
ignored_methods == {"__len__"}

\* method_wrapper.wrapped (lines 34-53): self is a mutable-form proxy
\* line 53: the result handed to CreateSecureValue, which gave c
rewrapped(c, self) == [err |-> c.err, value |-> c.value, self |-> self]

\* a faulty wrapper that hands the result of the member back as it is
\* (C8_Rewrap fails with it)
wrapped_plain(self, name, r) ==
    IF r.err /= "none" THEN Raises(r.err, [self EXCEPT !.orig = r.self])
    ELSE Returns(r.value, [self EXCEPT !.orig = r.self])

\* a faulty wrapper without the two rules for NotImplemented (lines 42-51): the
\* sentinel goes to CreateSecureValue like any result (C27_ComparisonRules fails
\* with it)
wrapped_without_comparison_rules(self, name, r) ==
    IF r.err /= "none" THEN Raises(r.err, [self EXCEPT !.orig = r.self])
    ELSE IF r.value.t = "NoneType" \/ IsIgnoredClass(r.value) \/ name \in ignored_methods
    THEN Returns(r.value, [self EXCEPT !.orig = r.self])
    ELSE rewrapped(CreateSecureValue(r.value, TRUE), [self EXCEPT !.orig = r.self])

\* lines 35-53, once the member of the original has given r
wrapped_result(self, name, r) ==
    IF r.err /= "none" THEN Raises(r.err, [self EXCEPT !.orig = r.self])
    ELSE IF r.value.t = "NoneType" \/ IsIgnoredClass(r.value) \/ name \in ignored_methods
    THEN Returns(r.value, [self EXCEPT !.orig = r.self])
    ELSE IF r.value.t = "NotImplementedType" /\ name \in compariosn_methods_with_type_error
    THEN Raises("TypeError", [self EXCEPT !.orig = r.self])
    ELSE IF r.value.t = "NotImplementedType" /\ name \in compariosn_methods_with_return
    THEN Returns(PyBool(FALSE), [self EXCEPT !.orig = r.self])
    ELSE rewrapped(CreateSecureValue(r.value, TRUE), [self EXCEPT !.orig = r.self])

wrapped(self, name, arg) == wrapped_result(self, name, NativeMember(self.orig, name, arg))

\* a member an immutable-form proxy inherits from its base class has given r
inherited(x, r) == [r EXCEPT !.self = [x EXCEPT !.data = r.self]]

\* x.name(arg) for any value of the model: a mutable-form proxy forwards through
\* wrapped, an immutable-form proxy inherits the member of its base class, which
\* acts on the instance's own data
MemberCall(x, name, arg) ==
    IF ~IsProxy(x) THEN NativeMember(x, name, arg)
    ELSE IF x.form = "mutable"
    THEN IF HasMember(x.orig, name) THEN wrapped(x, name, arg)
         ELSE Raises("AttributeError", x)
    ELSE inherited(x, NativeMember(x.data, name, arg))

-----------------------------------------------------------------------------
(* Text: str.strip, str.lower, int(text), float(text), json.loads(text) *)

\* the decimal digits in value order
Digits == <<"0", "1", "2", "3", "4", "5", "6", "7", "8", "9">>

IsDigit(c) == \E i \in DOMAIN Digits : Digits[i] = c
IsUpper(c) == Ord(c) \in 65..90
IsLower(c) == Ord(c) \in 97..122
DigitVal(c) == (CHOOSE i \in DOMAIN Digits : Digits[i] = c) - 1
LowerChar(c) == IF IsUpper(c) THEN Alphabet[Ord(c) - 31 + 32] ELSE c

\* s.lower()
Lower(s) == [i \in 1..Len(s) |-> LowerChar(s[i])]

RECURSIVE LStrip(_)
LStrip(s) == IF s /= <<>> /\ Head(s) = " " THEN LStrip(Tail(s)) ELSE s

RECURSIVE RStrip(_)
RStrip(s) == IF s /= <<>> /\ s[Len(s)] = " " THEN RStrip(SubSeq(s, 1, Len(s) - 1)) ELSE s

\* s.strip()
Strip(s) == RStrip(LStrip(s))

AllDigits(s) == \A i \in 1..Len(s) : IsDigit(s[i])

RECURSIVE DigitsValue(_)
\* the number a sequence of digits denotes
DigitsValue(s) == IF s = <<>> THEN 0
                  ELSE 10 * DigitsValue(SubSeq(s, 1, Len(s) - 1)) + DigitVal(s[Len(s)])

\* s without its "_" characters
NoUnderscores(s) == SelectSeq(s, LAMBDA c : c /= "_")

\* digits with single underscores between them, as int() and float() accept
IsDigitGroup(s) ==
    /\ s /= <<>>
    /\ \A i \in 1..Len(s) : IsDigit(s[i]) \/ s[i] = "_"
    /\ s[1] /= "_" /\ s[Len(s)] /= "_"
    /\ \A i \in 1..(Len(s) - 1) : ~(s[i] = "_" /\ s[i + 1] = "_")

HasSign(s) == s /= <<>> /\ Head(s) \in {"+", "-"}
Unsigned(s) == IF HasSign(s) THEN Tail(s) ELSE s
Signed(s, n) == IF s /= <<>> /\ Head(s) = "-" THEN 0 - n ELSE n

RECURSIVE NoLeadingZeros(_)
\* the digits of a number without its leading zeros
NoLeadingZeros(s) == IF Len(s) > 1 /\ Head(s) = "0" THEN NoLeadingZeros(Tail(s)) ELSE s

\* the significant digits of a digit group
Significant(group) == NoLeadingZeros(NoUnderscores(group))

\* int(text): [err, n].  err is "unmodelled" for a number of more than
\* MaxIntDigits digits
ParseInt(text) ==
    LET s == Strip(text)
        body == Unsigned(s)
    IN  IF ~IsDigitGroup(body) THEN [err |-> "ValueError", n |-> 0]
        ELSE IF Len(Significant(body)) > MaxIntDigits THEN [err |-> "unmodelled", n |-> 0]
        ELSE [err |-> "none", n |-> Signed(s, DigitsValue(Significant(body)))]

\* 2^53: up to it every integer is a float, and from it to 2^54 every even one
TwoPow53 == <<"9", "0", "0", "7", "1", "9", "9", "2", "5", "4", "7", "4", "0", "9", "9", "2">>

RECURSIVE DigitsLeq(_, _)
\* m <= n for two numbers written with the same count of digits
DigitsLeq(m, n) ==
    IF m = <<>> THEN TRUE
    ELSE IF Head(m) /= Head(n) THEN DigitVal(Head(m)) < DigitVal(Head(n))
    ELSE DigitsLeq(Tail(m), Tail(n))

\* int(text) == float(text) for the text of an integer of at most 16 significant
\* digits: float() rounds to 53 bits and the comparison of an int with a float
\* is exact
IntEqualsFloat(digits) ==
    \/ Len(digits) < Len(TwoPow53)
    \/ DigitsLeq(digits, TwoPow53)
    \/ DigitVal(digits[Len(digits)]) % 2 = 0

\* beyond every finite float of the model: float("inf") in tenths
Infinity == 1000000

IndexOf(s, c) == IF \E i \in 1..Len(s) : s[i] = c
                 THEN CHOOSE i \in 1..Len(s) : s[i] = c /\ \A j \in 1..(i - 1) : s[j] /= c
                 ELSE 0

\* float(text): [err, tenths].  err is "unmodelled" for a text whose value the
\* tenths cannot hold (a second fractional digit, an exponent, nan, more than
\* MaxIntDigits digits)
ParseFloat(text) ==
    LET s == Strip(text)
        body == Unsigned(s)
        low == Lower(body)
        dot == IndexOf(body, ".")
        ipart == IF dot = 0 THEN body ELSE SubSeq(body, 1, dot - 1)
        fpart == IF dot = 0 THEN <<>> ELSE SubSeq(body, dot + 1, Len(body))
        wellformed == /\ ipart = <<>> \/ IsDigitGroup(ipart)
                      /\ fpart = <<>> \/ IsDigitGroup(fpart)
                      /\ ipart /= <<>> \/ fpart /= <<>>
        f == NoUnderscores(fpart)
        exact == \A i \in 2..Len(f) : f[i] = "0"
        value == 10 * DigitsValue(Significant(ipart)) + (IF f = <<>> THEN 0 ELSE DigitVal(f[1]))
    IN  IF low \in {<<"i", "n", "f">>, <<"i", "n", "f", "i", "n", "i", "t", "y">>}
        THEN [err |-> "none", tenths |-> Signed(s, Infinity)]
        ELSE IF low = <<"n", "a", "n">> THEN [err |-> "unmodelled", tenths |-> 0]
        ELSE IF wellformed
        THEN IF exact /\ Len(Significant(ipart)) <= MaxIntDigits
             THEN [err |-> "none", tenths |-> Signed(s, value)]
             ELSE [err |-> "unmodelled", tenths |-> 0]
        ELSE IF \E i \in 1..Len(low) : low[i] = "e"
                /\ \A j \in 1..Len(low) : IsDigit(low[j]) \/ low[j] \in {"e", ".", "+", "-", "_"}
        THEN [err |-> "unmodelled", tenths |-> 0]
        ELSE [err |-> "ValueError", tenths |-> 0]

RECURSIVE SplitOn(_, _)
\* s.split(c)
SplitOn(s, c) ==
    LET i == IndexOf(s, c)
    IN  IF i = 0 THEN <<s>>
        ELSE <<SubSeq(s, 1, i - 1)>> \o SplitOn(SubSeq(s, i + 1, Len(s)), c)

\* a JSON integer: an optional "-", then digits without a leading zero
IsJsonInt(s) ==
    LET body == IF s /= <<>> /\ Head(s) = "-" THEN Tail(s) ELSE s
    IN  body /= <<>> /\ AllDigits(body) /\ (Len(body) = 1 \/ body[1] /= "0")

JsonIntValue(s) == IF Head(s) = "-" THEN 0 - DigitsValue(Tail(s)) ELSE DigitsValue(s)

\* a JSON number with a single fractional digit
IsJsonTenths(s) ==
    LET dot == IndexOf(s, ".")
    IN  dot > 0 /\ Len(s) = dot + 1 /\ IsDigit(s[Len(s)]) /\ IsJsonInt(SubSeq(s, 1, dot - 1))

\* json.loads(text): [err, value].  The JSON texts of the model are the literals
\* true, false and null, integers, numbers with one fractional digit, arrays of
\* integers and the empty object; err is "unmodelled" for any other text that could
\* be JSON (a string, a nested or mixed container, an exponent, NaN, Infinity)
JsonLoads(text) ==
    LET s == Strip(text)
        inner == IF Len(s) >= 2 THEN Strip(SubSeq(s, 2, Len(s) - 1)) ELSE <<>>
        parts == SplitOn(inner, ",")
        items == [i \in 1..Len(parts) |-> Strip(parts[i])]
        dot == IndexOf(s, ".")
        other == \E i \in 1..Len(s) : s[i] \in {"\"", "[", "{", "N", "I", "e", "E"}
    IN  IF s = <<"t", "r", "u", "e">> THEN [err |-> "none", value |-> PyBool(TRUE)]
        ELSE IF s = <<"f", "a", "l", "s", "e">> THEN [err |-> "none", value |-> PyBool(FALSE)]
        ELSE IF s = <<"n", "u", "l", "l">> THEN [err |-> "none", value |-> PyNone]
        ELSE IF IsJsonInt(s)
        THEN IF Len(s) > MaxIntDigits THEN [err |-> "unmodelled", value |-> PyNone]
             ELSE [err |-> "none", value |-> PyInt(JsonIntValue(s))]
        ELSE IF IsJsonTenths(s)
        THEN [err |-> "none",
              value |-> PyFloat(Signed(s, 10 * DigitsValue(SubSeq(Unsigned(s), 1, IndexOf(Unsigned(s), ".") - 1))
                                          + DigitVal(s[Len(s)])))]
        ELSE IF Len(s) >= 2 /\ s[1] = "{" /\ s[Len(s)] = "}" /\ inner = <<>>
        THEN [err |-> "none", value |-> PyDict(<<>>)]
        ELSE IF Len(s) >= 2 /\ s[1] = "[" /\ s[Len(s)] = "]" /\ inner = <<>>
        THEN [err |-> "none", value |-> PyList(<<>>)]
        ELSE IF Len(s) >= 2 /\ s[1] = "[" /\ s[Len(s)] = "]" /\ \A i \in 1..Len(items) : IsJsonInt(items[i])
        THEN [err |-> "none", value |-> PyList([i \in 1..Len(items) |-> JsonIntValue(items[i])])]
        ELSE IF other THEN [err |-> "unmodelled", value |-> PyNone]
        ELSE [err |-> "JSONDecodeError", value |-> PyNone]

-----------------------------------------------------------------------------
(* classes.py: the data-type descriptors.  A descriptor object is a record
   [kind, convert, support_boolean, support_inf, user, min_length, max_length,
    special_chars, numbers, uppercase, lowercase, has_value, value]:
   the options its constructor stored, whether the attribute value exists yet
   and its content. *)

Kinds == {"String", "Integer", "PositiveInteger", "NegativeInteger", "Float", "Boolean",
          "List", "Dict", "Any", "Secret", "StrongPassword", "Email"}

\* the caller-supplied value_validator: absent, one that returns, one that raises
UserChecks == {"none", "accept", "raise"}

\* the default min_length of StrongPasswordDataType
DefaultMinLength == 8

\* the constructors, with every option at its default (max_length 0 is None)
NewDescriptor(kind, user) ==
    [kind |-> kind, convert |-> TRUE, support_boolean |-> FALSE, support_inf |-> FALSE,
     user |-> user, min_length |-> DefaultMinLength, max_length |-> 0,
     special_chars |-> TRUE, numbers |-> TRUE, uppercase |-> TRUE, lowercase |-> TRUE,
     has_value |-> FALSE, value |-> PyNone]

\* SecretDataType.__init__ and the class attribute of BaseDataType
mask_value(d) == d.kind \in {"Secret", "StrongPassword"}

\* the datatype each constructor passes to StandardDataType.__init__
data_type(d) ==
    CASE d.kind \in {"String", "Email"} -> "str"
      [] d.kind \in {"Integer", "PositiveInteger", "NegativeInteger"} -> "int"
      [] d.kind = "Float" -> "float"
      [] d.kind = "Boolean" -> "bool"
      [] d.kind = "List" -> "list"
      [] d.kind = "Dict" -> "dict"
      [] OTHER -> "object"

\* isinstance(x, cls): a proxy is an instance of the class it extends, a bool of int
IsInstance(x, cls) ==
    CASE cls = "object" -> TRUE
      [] cls = "bool" -> x.t = "bool"
      [] OTHER -> NativeClass(x) = cls

\* the result of a stage: the descriptor after it and the exception it raised
Passed(d) == [d |-> d, err |-> "none"]
Failed(d, e) == [d |-> d, err |-> e]

\* pyappenv_logger.error(...) inside an except block, then raise: without an
\* installed logger the name lookup raises NameError in place of the first error
LogAndReraise(d, e, logger) ==
    Failed(d, IF logger \/ e = "unmodelled" THEN e ELSE "NameError")

\* a faulty convert_to_secure_value that does not read the reveal flag
\* (C6_RevealOn fails with it)
convert_masking_always(d, value, show, mutable) ==
    IF mask_value(d) THEN CreateSecureValue(value, mutable)
    ELSE Return(value)

\* StandardDataType.convert_to_secure_value
convert_to_secure_value(d, value, show, mutable) ==
    IF mask_value(d) /\ ~show THEN CreateSecureValue(value, mutable)
    ELSE Return(value)

\* bool(x == "NOT_SET"): a plain value and an immutable-form proxy compare their
\* own data; a mutable-form proxy forwards __eq__, and what comes back (False, or
\* a proxy of a bool, whose own int data is 0) is never true
EqualsNotSet(x) ==
    IF IsProxy(x) /\ x.form = "mutable" THEN FALSE
    ELSE NativeData(x) = PyStr(NOT_SET)

\* BaseDataType.precheck_empty_value
precheck_empty_value(d) ==
    IF ~d.has_value \/ EqualsNotSet(d.value) THEN Failed(d, "ValueError")
    ELSE Passed(d)

\* int(x) of a float in tenths: towards zero
Trunc(tenths) == IF tenths >= 0 THEN tenths \div 10 ELSE 0 - ((0 - tenths) \div 10)

\* int(x): [err, n]
PyIntOf(x) ==
    LET n == NativeData(x)
    IN  CASE n.t = "str" -> ParseInt(n.v)
          [] n.t \in {"int", "bool"} -> [err |-> "none", n |-> IntOf(n)]
          [] n.t = "float" -> IF n.v \in {Infinity, 0 - Infinity}
                              THEN [err |-> "OverflowError", n |-> 0]
                              ELSE [err |-> "none", n |-> Trunc(n.v)]
          [] OTHER -> [err |-> "TypeError", n |-> 0]

\* float(x): [err, tenths]
PyFloatOf(x) ==
    LET n == NativeData(x)
    IN  CASE n.t = "str" -> ParseFloat(n.v)
          [] n.t \in {"int", "bool", "float"} -> [err |-> "none", tenths |-> Tenths(n)]
          [] OTHER -> [err |-> "TypeError", tenths |-> 0]

\* IntegerDataType.convert_type
\* the try block of IntegerDataType.convert_type, given i = int(self.value) and
\* f = float(self.value)
Integer_try(d, i, f, logger) ==
    IF i.err /= "none" THEN LogAndReraise(d, i.err, logger)
    ELSE IF f.err /= "none" THEN LogAndReraise(d, f.err, logger)
    ELSE IF 10 * i.n /= f.tenths \/ d.value.t \notin {"str", "float"}
    THEN LogAndReraise(d, "ValueError", logger)
    ELSE Passed([d EXCEPT !.value = PyInt(i.n)])

\* the text of an integer of more than MaxIntDigits significant digits
IsLongIntegerText(x) ==
    /\ x.t = "str"
    /\ IsDigitGroup(Unsigned(Strip(x.v)))
    /\ Len(Significant(Unsigned(Strip(x.v)))) > MaxIntDigits

\* the try block of IntegerDataType.convert_type for such a text, given its
\* significant digits: int() and float() both succeed, and the value is accepted
\* when the two are equal; the accepted number is beyond the numbers of the model
Integer_try_long(d, digits, logger) ==
    IF Len(digits) > Len(TwoPow53) THEN Failed(d, "unmodelled")
    ELSE IF ~IntEqualsFloat(digits) THEN LogAndReraise(d, "ValueError", logger)
    ELSE Failed(d, "unmodelled")

\* IntegerDataType.convert_type
Integer_convert_type(d, logger) ==
    IF IsInstance(d.value, "int") /\ ~(d.value.t = "bool" /\ ~d.support_boolean)
    THEN Passed([d EXCEPT !.value = PyInt(IntOf(NativeData(d.value)))])
    ELSE IF IsLongIntegerText(d.value)
    THEN Integer_try_long(d, Significant(Unsigned(Strip(d.value.v))), logger)
    ELSE Integer_try(d, PyIntOf(d.value), PyFloatOf(d.value), logger)

\* the try block of FloatDataType.convert_type, given f = float(self.value)
Float_try(d, f, logger) ==
    IF f.err /= "none" THEN LogAndReraise(d, f.err, logger)
    ELSE Passed([d EXCEPT !.value = PyFloat(f.tenths)])

\* FloatDataType.convert_type
Float_convert_type(d, logger) ==
    IF IsInstance(d.value, "float") THEN Passed(d)
    ELSE IF /\ ~d.support_inf
            /\ IsInstance(d.value, "str")
            /\ Strip(Lower(NativeData(d.value).v)) \in {<<"i", "n", "f">>, <<"-", "i", "n", "f">>}
    THEN LogAndReraise(d, "ValueError", logger)
    ELSE IF ~d.support_boolean /\ d.value.t = "bool"
    THEN LogAndReraise(d, "ValueError", logger)
    ELSE Float_try(d, PyFloatOf(d.value), logger)

true_values == {<<"t", "r", "u", "e">>, <<"1">>, <<"y", "e", "s">>, <<"y">>}
false_values == {<<"f", "a", "l", "s", "e">>, <<"0">>, <<"n", "o">>, <<"n">>}

\* a faulty conversion that takes every integer by its truth value and does not
\* trim the text (C14_BooleanTotal fails with it)
Boolean_convert_truthy(d) ==
    IF d.value.t = "bool" THEN Passed(d)
    ELSE IF IsInstance(d.value, "int")
    THEN Passed([d EXCEPT !.value = PyBool(IntOf(NativeData(d.value)) /= 0)])
    ELSE IF ~IsInstance(d.value, "str") THEN Failed(d, "ValueError")
    ELSE IF Lower(NativeData(d.value).v) \in true_values
    THEN Passed([d EXCEPT !.value = PyBool(TRUE)])
    ELSE IF Lower(NativeData(d.value).v) \in false_values
    THEN Passed([d EXCEPT !.value = PyBool(FALSE)])
    ELSE Failed(d, "ValueError")

\* BooleanDataType.convert_type
Boolean_convert_type(d) ==
    IF d.value.t = "bool" THEN Passed(d)
    ELSE IF IsInstance(d.value, "int")
    THEN IF IntOf(NativeData(d.value)) \in {0, 1}
         THEN Passed([d EXCEPT !.value = PyBool(IntOf(NativeData(d.value)) = 1)])
         ELSE Failed(d, "ValueError")
    ELSE IF ~IsInstance(d.value, "str") THEN Failed(d, "ValueError")
    ELSE IF Lower(Strip(NativeData(d.value).v)) \in true_values
    THEN Passed([d EXCEPT !.value = PyBool(TRUE)])
    ELSE IF Lower(Strip(NativeData(d.value).v)) \in false_values
    THEN Passed([d EXCEPT !.value = PyBool(FALSE)])
    ELSE Failed(d, "ValueError")

\* the try block of ListDataType.convert_type and DictDataType.convert_type, given
\* j = json.loads(self.value)
Json_try(d, j) ==
    IF j.err = "JSONDecodeError" THEN Failed(d, "ValueError")
    ELSE IF j.err /= "none" THEN Failed(d, j.err)
    ELSE Passed([d EXCEPT !.value = j.value])

\* ListDataType.convert_type and DictDataType.convert_type, for their native class
Json_convert_type(d, native) ==
    IF IsInstance(d.value, native) THEN Passed(d)
    ELSE IF IsInstance(d.value, "str")
    THEN Json_try(d, JsonLoads(NativeData(d.value).v))
    ELSE Passed(d)

\* self.convert_type(): the override of the class, or the lambda: None that the
\* constructor installs for convert=False
convert_type(d, logger) ==
    IF ~d.convert THEN Passed(d)
    ELSE CASE d.kind \in {"Integer", "PositiveInteger", "NegativeInteger"} ->
                Integer_convert_type(d, logger)
           [] d.kind = "Float" -> Float_convert_type(d, logger)
           [] d.kind = "Boolean" -> Boolean_convert_type(d)
           [] d.kind = "List" -> Json_convert_type(d, "list")
           [] d.kind = "Dict" -> Json_convert_type(d, "dict")
           [] OTHER -> Passed(d)

\* StandardDataType.validate_type
validate_type(d) ==
    IF ~IsInstance(d.value, data_type(d)) THEN Failed(d, "TypeError") ELSE Passed(d)

\* s contains sub as a substring
Contains(s, sub) ==
    \E i \in 1..(Len(s) - Len(sub) + 1) : SubSeq(s, i, i + Len(sub) - 1) = sub

\* StrongPasswordDataType.__SPECIAL_CHARS
SPECIAL_CHARS == {"!", "@", "#", "$", "%", "^", "&", "*", "(", ")", "_", "+"}

\* the alternatives of the pattern of lines 492-493
CommonPatterns == {<<"1", "2", "3", "4">>, <<"a", "b", "c", "d">>,
                   <<"q", "w", "e", "r", "t", "y">>,
                   <<"p", "a", "s", "s", "w", "o", "r", "d">>,
                   <<"a", "b", "c", "@", "1", "2", "3">>,
                   <<"p", "a", "s", "s", "w", "o", "r", "d", "@", "1", "2", "3">>,
                   <<"1", "2", "3", "4", "5", "6", "7", "8">>}

\* a raise of _value_validator: the exception and the rule whose message it carries
Broken(e, rule) == [err |-> e, rule |-> rule]
NoRule == [err |-> "none", rule |-> "none"]

\* a faulty sequence of tests that looks for an uppercase letter before it
\* measures the length (C16_RuleOrder fails with it)
StrongPassword_raise_upper_first(d, n) ==
    IF n.t /= "str" THEN Broken("TypeError", "re.search")
    ELSE IF ~\E i \in 1..Len(n.v) : IsUpper(n.v[i]) THEN Broken("ValueError", "uppercase")
    ELSE IF PyLen(n) < d.min_length THEN Broken("ValueError", "min_length")
    ELSE IF d.max_length /= 0 /\ PyLen(n) > d.max_length THEN Broken("ValueError", "max_length")
    ELSE IF ~\E i \in 1..Len(n.v) : IsLower(n.v[i]) THEN Broken("ValueError", "lowercase")
    ELSE IF ~\E i \in 1..Len(n.v) : IsDigit(n.v[i]) THEN Broken("ValueError", "digit")
    ELSE IF ~\E i \in 1..Len(n.v) : n.v[i] \in SPECIAL_CHARS THEN Broken("ValueError", "special")
    ELSE IF \E w \in CommonPatterns : Contains(Lower(n.v), w) THEN Broken("ValueError", "common")
    ELSE NoRule

\* the tests of StrongPasswordDataType._value_validator (lines 466-497) on the
\* native data n of password_value, in their order: the first raise
StrongPassword_raise(d, n) ==
    IF n.t \notin SizedTypes THEN Broken("TypeError", "len")             \* len()
    ELSE IF n.t = "custom" /\ n.v = <<-1>> THEN Broken("AttributeError", "len")
    ELSE IF PyLen(n) < d.min_length THEN Broken("ValueError", "min_length")
    ELSE IF d.max_length /= 0 /\ PyLen(n) > d.max_length THEN Broken("ValueError", "max_length")
    ELSE IF n.t /= "str" THEN Broken("TypeError", "re.search")           \* re.search
    ELSE IF ~\E i \in 1..Len(n.v) : IsUpper(n.v[i]) THEN Broken("ValueError", "uppercase")
    ELSE IF ~\E i \in 1..Len(n.v) : IsLower(n.v[i]) THEN Broken("ValueError", "lowercase")
    ELSE IF ~\E i \in 1..Len(n.v) : IsDigit(n.v[i]) THEN Broken("ValueError", "digit")
    ELSE IF ~\E i \in 1..Len(n.v) : n.v[i] \in SPECIAL_CHARS THEN Broken("ValueError", "special")
    ELSE IF \E w \in CommonPatterns : Contains(Lower(n.v), w) THEN Broken("ValueError", "common")
    ELSE NoRule

\* password_value of lines 462-464: the original of a proxy, or the value
password_value(d) == NativeData(IF IsProxy(d.value) THEN d.value.orig ELSE d.value)

\* the rule whose message the last raise of _value_validator carries
StrongPassword_rule(d) == StrongPassword_raise(d, password_value(d)).rule

\* StrongPasswordDataType._value_validator
StrongPassword_value_validator(d) ==
    Failed(d, StrongPassword_raise(d, password_value(d)).err)

\* the top-level domains the tld package knows, among those of the model
KnownTlds == {<<"c", "o", "m">>, <<"o", "r", "g">>}

\* tld.get_tld(url) finds a known top-level domain under a non-empty name
get_tld_succeeds(domain_name) ==
    LET labels == SplitOn(Lower(domain_name), ".")
    IN  Len(labels) >= 2 /\ labels[Len(labels)] \in KnownTlds /\ labels[Len(labels) - 1] /= <<>>

\* EmailDataType.is_valid_domain_name
is_valid_domain_name(domain_name) ==
    /\ domain_name /= <<>>
    /\ \A i \in 1..Len(domain_name) :
          \/ IsDigit(domain_name[i]) \/ IsUpper(domain_name[i]) \/ IsLower(domain_name[i])
          \/ domain_name[i] \in {".", "-"}
    /\ get_tld_succeeds(domain_name)

\* re.match(r"[^@]+@[^@]+\.[^@]+", s): a prefix of s has the shape, so after the
\* first "@" the run of characters up to the next "@" holds an inner "."
EmailPatternMatches(s) ==
    LET at == IndexOf(s, "@")
        rest == SubSeq(s, at + 1, Len(s))
        stop == IndexOf(rest, "@")
        run == IF stop = 0 THEN rest ELSE SubSeq(rest, 1, stop - 1)
    IN  at > 1 /\ \E i \in 2..(Len(run) - 1) : run[i] = "."

\* EmailDataType._value_validator
Email_value_validator(d) ==
    LET s == NativeData(d.value).v
        parts == SplitOn(s, "@")
    IN  IF ~EmailPatternMatches(s) THEN Failed(d, "ValueError")
        ELSE IF Len(parts) = 2 /\ ~is_valid_domain_name(parts[2]) THEN Failed(d, "ValueError")
        ELSE Passed(d)

\* a faulty check whose sign tests let zero through (C15_StrictSign fails with it)
value_validator_with_zero(d) ==
    CASE d.kind = "PositiveInteger" ->
            IF IntOf(NativeData(d.value)) < 0 THEN Failed(d, "ValueError") ELSE Passed(d)
      [] d.kind = "NegativeInteger" ->
            IF IntOf(NativeData(d.value)) > 0 THEN Failed(d, "ValueError") ELSE Passed(d)
      [] OTHER -> Passed(d)

\* self.value_validator(): the _value_validator of the class, if it has one
value_validator(d) ==
    CASE d.kind = "String" ->
            IF ~IsInstance(d.value, "str") THEN Failed(d, "ValueError") ELSE Passed(d)
      [] d.kind = "Integer" ->
            IF ~IsInstance(d.value, "int") THEN Failed(d, "ValueError") ELSE Passed(d)
      [] d.kind = "PositiveInteger" ->
            IF IntOf(NativeData(d.value)) <= 0 THEN Failed(d, "ValueError") ELSE Passed(d)
      [] d.kind = "NegativeInteger" ->
            IF IntOf(NativeData(d.value)) >= 0 THEN Failed(d, "ValueError") ELSE Passed(d)
      [] d.kind = "StrongPassword" -> StrongPassword_value_validator(d)
      [] d.kind = "Email" -> Email_value_validator(d)
      [] OTHER -> Passed(d)

\* self.user_validator(self.value): the caller's callable, or the empty method
user_validator(d) ==
    IF d.user = "raise" THEN Failed(d, "RuntimeError") ELSE Passed(d)

\* a faulty order that runs the caller's check right after the value is stored
\* (C1_FailFast fails with it)
PipelineUserFirst == <<"convert_to_secure_value", "user_validator", "precheck_empty_value",
                       "convert_type", "validate_type", "value_validator">>

\* the statements of StandardDataType.__set_value__, in the order of lines 252-258
Pipeline == <<"convert_to_secure_value", "precheck_empty_value", "convert_type",
              "validate_type", "value_validator", "user_validator">>

\* one statement of __set_value__
Stage(name, d, value, show, mutable, logger) ==
    CASE name = "convert_to_secure_value" ->
            LET c == convert_to_secure_value(d, value, show, mutable)
            IN  IF c.err /= "none" THEN Failed(d, c.err)
                ELSE Passed([d EXCEPT !.value = c.value, !.has_value = TRUE])
      [] name = "precheck_empty_value" -> precheck_empty_value(d)
      [] name = "convert_type" -> convert_type(d, logger)
      [] name = "validate_type" -> validate_type(d)
      [] name = "value_validator" -> value_validator(d)
      [] OTHER -> user_validator(d)

\* a run of __set_value__ so far: the descriptor, the exception in flight, the
\* statements entered, the failing statement, and the values handed to the
\* caller's value_validator
StartRun(d) == [d |-> d, err |-> "none", log |-> <<>>, stage |-> "none", user_seen |-> <<>>]

\* the run after the statement name has given the result r
AfterStage(run, name, r) ==
    [d |-> r.d, err |-> r.err,
     log |-> Append(run.log, name),
     stage |-> IF r.err /= "none" THEN name ELSE "none",
     user_seen |-> IF name = "user_validator" /\ run.d.user /= "none"
                   THEN Append(run.user_seen, run.d.value)
                   ELSE run.user_seen]

RECURSIVE RunStages(_, _, _, _, _, _)
\* the statements run one after the other; an exception ends the call
RunStages(run, stages, value, show, mutable, logger) ==
    IF stages = <<>> \/ run.err /= "none" THEN run
    ELSE RunStages(AfterStage(run, Head(stages),
                              Stage(Head(stages), run.d, value, show, mutable, logger)),
                   Tail(stages), value, show, mutable, logger)

\* StandardDataType.__set_value__(value)
set_value(d, value, show, mutable, logger) ==
    RunStages(StartRun(d), Pipeline, value, show, mutable, logger)

-----------------------------------------------------------------------------
(* The inputs of the model *)

\* texts of numbers: in and out of the integers, with sign, blanks and leading
\* zeros, and 2^53 + 1
NumberTexts == {<<"0">>, <<"-", "1">>, <<" ", "+", "0", "7", " ">>, <<"1", ".", "5">>,
                <<"9", "0", "0", "7", "1", "9", "9", "2", "5", "4", "7", "4", "0", "9", "9", "3">>}

\* texts for the boolean conversion
BooleanTexts == {<<" ", "n", " ">>, <<"T", "r", "u", "e">>, <<"o", "n">>}

\* passwords that break one rule or several of StrongPasswordDataType
PasswordTexts == {<<"A", "b", "c", "@", "1", "4">>,
                  <<"A", "b", "c", "@", "1", "2", "3", "4", "!">>,
                  <<"a", "b", "c", "d">>,
                  <<"s", "e", "c", "r", "e", "t", "!", "!">>,
                  <<"A", "B", "C", "D", "E", "F", "G", "1">>,
                  <<"Q", "w", "e", "r", "t", "y", "!", "!">>,
                  <<"S", "e", "c", "r", "e", "t", "2", "2", "6", "5">>,
                  <<"s", "e", "c", "r", "e", "t", "@", "2", "2", "6", "5">>,
                  <<"S", "E", "C", "R", "E", "T", "@", "2", "2", "6", "5">>,
                  <<"S", "e", "c", "r", "e", "t", "@", "x", "y", "z">>}

\* addresses with a bad domain, a second "@", no local part
EmailTexts == {<<"a", "@", "b", ".", "x", "y">>, <<"a", "@", "b", ".", "c", "o", "m", "@", "c">>,
               <<"@", "b", ".", "c", "o", "m">>, <<"a", "@", "b", "_", ".", "c", "o", "m">>,
               <<"a", "@", "b">>}

RawStrings == {<<"s", "e", "c", "r", "e", "t">>, NOT_SET, <<>>,
               <<"A", "b", "c", "@", "2", "2", "6", "5">>,
               <<"1", "2">>, <<"Y", "E", "S">>, <<"[", "1", "]">>,
               <<"a", "@", "b", ".", "c", "o", "m">>}

\* the raw values a caller hands to __set_value__ or puts in a configuration
RawValues == {PyStr(s) : s \in RawStrings}
             \cup {PyInt(5), PyInt(-1), PyFloat(15), PyBool(TRUE), PyList(<<1>>),
                   PyDict(<<<<1, 1>>>>), PyTuple(<<1>>), PyBytes(<<120>>), PySet({1}),
                   PyNone, PyCustom(<<10>>), PyFunction("json.dumps"),
                   PyClass("CustomClass")}

\* the descriptors a caller constructs
DescriptorConfigs ==
    {NewDescriptor(k, "none") : k \in Kinds}
    \cup {NewDescriptor(k, "raise") : k \in {"String", "Secret"}}
    \cup {NewDescriptor("Any", "accept")}
    \cup {[NewDescriptor(k, "none") EXCEPT !.convert = FALSE] : k \in {"Integer", "Boolean"}}

\* the raw values handed to the descriptors whose conversions and checks are
\* examined one call at a time
TypedValues == RawValues
               \cup {PyStr(s) : s \in NumberTexts \cup BooleanTexts \cup PasswordTexts \cup EmailTexts}
               \cup {PyInt(0), PyInt(1), PyFloat(20), PyBool(FALSE)}

\* the descriptors of those calls: every class with its defaults, and the options
\* convert, support_boolean, max_length and the four character-class toggles
TypedConfigs ==
    {NewDescriptor(k, "none") : k \in Kinds}
    \cup {[NewDescriptor(k, "none") EXCEPT !.convert = FALSE] :
             k \in {"Integer", "PositiveInteger", "NegativeInteger", "Float", "Boolean",
                    "List", "Dict"}}
    \cup {[NewDescriptor(k, "none") EXCEPT !.support_boolean = TRUE] : k \in {"Integer", "Float"}}
    \cup {[NewDescriptor("Integer", "none") EXCEPT !.support_boolean = TRUE, !.convert = FALSE]}
    \cup {[NewDescriptor("StrongPassword", "none") EXCEPT !.max_length = DefaultMinLength],
          [NewDescriptor("StrongPassword", "none") EXCEPT !.special_chars = FALSE],
          [NewDescriptor("StrongPassword", "none") EXCEPT !.numbers = FALSE],
          [NewDescriptor("StrongPassword", "none") EXCEPT !.uppercase = FALSE],
          [NewDescriptor("StrongPassword", "none") EXCEPT !.lowercase = FALSE]}

-----------------------------------------------------------------------------
(* The state machine *)

NoCall == [desc |-> 0, raw |-> PyNone, again |-> FALSE, err |-> "none", log |-> <<>>,
           stage |-> "none", user_seen |-> <<>>, rule |-> "none"]
NoValue == [held |-> FALSE, value |-> PyNone, raw |-> PyNone, chain |-> 0]
NoOp == [name |-> "none", arg |-> PyNone, recv |-> PyNone, err |-> "none", value |-> PyNone]
NoCfgOp == [name |-> "none", env |-> 0, key |-> "", value |-> PyNone, err |-> "none",
            before |-> PyNone]

\* before any PyAppEnv exists: the module-level flags of global_vars.py, no logger
InitGlobals ==
    /\ glb_show_secured_values = TRUE
    /\ glb_make_secured_values_mutable = FALSE
    /\ logger_set = FALSE

\* a caller has constructed one descriptor
Init ==
    /\ InitGlobals
    /\ \E c \in DescriptorConfigs : descs = <<c>>
    /\ call = NoCall
    /\ cur = NoValue
    /\ op = NoOp
    /\ envs = <<>>
    /\ cfgop = NoCfgOp

\* PyAppEnv.set_secured_values and PyAppEnv.set_secured_mutable
set_secured_values(value) == glb_show_secured_values' = value
set_secured_mutable(value) == glb_make_secured_values_mutable' = value

\* PyAppEnv(show_secured_values=show, make_secured_values_mutable=mutable) with no
\* env_configs: the logger is installed, both flags are assigned, and then set_env
\* or load_config raises, as there is no environment to select
PyAppEnv_init_empty(show, mutable) ==
    /\ logger_set' = TRUE
    /\ set_secured_values(show)
    /\ set_secured_mutable(mutable)
    /\ call' = NoCall
    /\ UNCHANGED <<descs, cur, op, envs, cfgop>>

\* the rule named in the message of the exception a run ended with, for the
\* exceptions of StrongPasswordDataType._value_validator
raised_rule(run) ==
    IF run.stage = "value_validator" /\ run.d.kind = "StrongPassword"
    THEN StrongPassword_rule(run.d)
    ELSE "none"

\* a faulty __set_value__ that restores the descriptor when a stage raises
\* (C28_NoRollback fails with it)
SetValueRollsBack(i, value, again, run) ==
    /\ run.err /= "unmodelled"
    /\ Depth(run.d.value) <= MaxDepth
    /\ descs' = IF run.err = "none" THEN [descs EXCEPT ![i] = run.d] ELSE descs
    /\ call' = [desc |-> i, raw |-> value, again |-> again,
                err |-> run.err, log |-> run.log,
                stage |-> run.stage, user_seen |-> run.user_seen,
                rule |-> raised_rule(run)]
    /\ UNCHANGED <<glb_show_secured_values, glb_make_secured_values_mutable,
                   logger_set, cur, op, envs, cfgop>>

\* descs[i].__set_value__(value) called by the client; again tells a call that
\* hands the descriptor the value it already holds
SetValueReturns(i, value, again, run) ==
    /\ run.err /= "unmodelled"
    /\ Depth(run.d.value) <= MaxDepth
    /\ descs' = [descs EXCEPT ![i] = run.d]
    /\ call' = [desc |-> i, raw |-> value, again |-> again,
                err |-> run.err, log |-> run.log,
                stage |-> run.stage, user_seen |-> run.user_seen,
                rule |-> raised_rule(run)]
    /\ UNCHANGED <<glb_show_secured_values, glb_make_secured_values_mutable,
                   logger_set, cur, op, envs, cfgop>>

SetValueCall(i, value, again) ==
    SetValueReturns(i, value, again,
                    set_value(descs[i], value, glb_show_secured_values,
                              glb_make_secured_values_mutable, logger_set))

SetValue(i, value) == SetValueCall(i, value, FALSE)

\* the client runs the pipeline again on the value the descriptor holds
SetValueAgain(i) ==
    /\ descs[i].has_value
    /\ SetValueCall(i, descs[i].value, TRUE)

Next ==
    \/ \E show \in BOOLEAN, mutable \in BOOLEAN : PyAppEnv_init_empty(show, mutable)
    \/ \E i \in 1..Len(descs), value \in RawValues : SetValue(i, value)
    \/ \E i \in 1..Len(descs) : SetValueAgain(i)

Spec == Init /\ [][Next]_vars

-----------------------------------------------------------------------------
(* The client of one descriptor: it imports the package, may construct a
   PyAppEnv without environments (show_secured_values left at its default, False),
   constructs a descriptor and hands it values *)

\* the flags and the logger once the client has its descriptor
InitTyped ==
    /\ \/ InitGlobals
       \/ /\ glb_show_secured_values = FALSE
          /\ glb_make_secured_values_mutable \in BOOLEAN
          /\ logger_set = TRUE
    /\ \E c \in TypedConfigs : descs = <<c>>
    /\ call = NoCall
    /\ cur = NoValue
    /\ op = NoOp
    /\ envs = <<>>
    /\ cfgop = NoCfgOp

NextTyped == \E value \in TypedValues : SetValue(1, value)

SpecTyped == InitTyped /\ [][NextTyped]_vars

-----------------------------------------------------------------------------
(* Properties of the pipeline (specification Spec) *)

IsPrefix(s, t) == Len(s) <= Len(t) /\ s = SubSeq(t, 1, Len(s))

\* the order the stages are specified to run in, once the value is stored
StageOrder == <<"convert_to_secure_value", "precheck_empty_value", "convert_type",
                "validate_type", "value_validator", "user_validator">>

\* the descriptor of the last call with the value the caller's check was handed
SeenByUser == [descs[call.desc] EXCEPT !.value = call.user_seen[1], !.has_value = TRUE]

\* C1: the stages of __set_value__ run in the order precheck, conversion, type
\* check, semantic check, user check; the first stage that raises is the last one
\* that runs, its error is the one the caller sees, and the caller's check is only
\* ever handed a value that passed precheck, type check and semantic check.
C1_FailFast ==
    call.desc /= 0 =>
        /\ call.log /= <<>>
        /\ IsPrefix(call.log, StageOrder)
        /\ call.err = "none" => call.log = StageOrder /\ call.stage = "none"
        /\ call.err /= "none" =>
              /\ call.stage = call.log[Len(call.log)]
              /\ Stage(call.stage, descs[call.desc], call.raw, glb_show_secured_values,
                       glb_make_secured_values_mutable, logger_set).err = call.err
        /\ call.user_seen /= <<>> =>
              /\ Len(call.user_seen) = 1
              /\ call.stage \in {"none", "user_validator"}
              /\ precheck_empty_value(SeenByUser).err = "none"
              /\ validate_type(SeenByUser).err = "none"
              /\ value_validator(SeenByUser).err = "none"

\* a call that failed the type check of a descriptor whose caller's check raises:
\* the caller's check was not entered
C1_Witness ==
    /\ call.desc /= 0
    /\ call.err = "TypeError"
    /\ call.stage = "validate_type"
    /\ descs[call.desc].user = "raise"
    /\ call.user_seen = <<>>

\* the last call handed a fresh, non-absent raw value to a Secret while reveal is off
SecretCallMasked ==
    /\ call.desc /= 0
    /\ ~call.again
    /\ descs[call.desc].kind = "Secret"
    /\ ~glb_show_secured_values
    /\ call.raw /= PyNone
    /\ call.err = "none"

C6_RevealOn ==
    (/\ call.desc /= 0
     /\ ~call.again
     /\ mask_value(descs[call.desc])
     /\ glb_show_secured_values) =>
        /\ descs[call.desc].has_value
        /\ descs[call.desc].value = call.raw
        /\ ~IsProxy(descs[call.desc].value)
        /\ ~HasUnmasked(descs[call.desc].value)
        /\ Str(descs[call.desc].value) = NativeStr(call.raw)

\* a password accepted by a StrongPassword with reveal on and mutable on
C6_Witness ==
    /\ call.desc /= 0
    /\ ~call.again
    /\ descs[call.desc].kind = "StrongPassword"
    /\ glb_show_secured_values
    /\ glb_make_secured_values_mutable
    /\ call.err = "none"
    /\ call.raw.t = "str"
    /\ descs[call.desc].value = call.raw

\* C10 as stated: once __set_value__(raw) has succeeded with the canonical value c,
\* __set_value__(c) on the same descriptor, under the same flags, succeeds too and
\* leaves a canonical value equal to c, with no further layer of wrapping.
C10_Idempotent ==
    [][(/\ call.desc /= 0
        /\ call.err = "none"
        /\ call'.desc = call.desc
        /\ call'.again) =>
           /\ call'.err = "none"
           /\ descs'[call.desc].value = descs[call.desc].value]_vars

\* C11: the precheck of __set_value__ never fails for a value that was actually
\* passed to it, whatever the value is, any string included; the pipeline goes on
\* to the conversion.
C11_PrecheckPasses ==
    (call.desc /= 0 /\ Len(call.log) >= 2) =>
        /\ call.stage /= "precheck_empty_value"
        /\ call.log[3] = "convert_type"

-----------------------------------------------------------------------------
(* Properties of the conversions and checks (specification SpecTyped) *)

\* the descriptor of the last call, and whether that call was accepted
Called == descs[call.desc]
Accepted == call.desc /= 0 /\ call.err = "none"
Rejected == call.desc /= 0 /\ call.err /= "none"

NumericKinds == {"Integer", "PositiveInteger", "NegativeInteger", "Float"}

\* C12: an Integer, PositiveInteger, NegativeInteger or Float descriptor without
\* support_boolean never accepts True or False, with convert on or off; a boolean
\* is accepted only by a descriptor with support_boolean, as the number 0 or 1.
C12_BooleanRejected ==
    (call.desc /= 0 /\ Called.kind \in NumericKinds /\ call.raw.t = "bool") =>
        /\ ~Called.support_boolean => Rejected
        /\ Accepted => /\ Called.support_boolean
                       /\ Tenths(NativeData(Called.value)) = Tenths(call.raw)

\* a decimal representation of an integer: an optional minus sign, then digits
IsDecimalInteger(s) == Unsigned(s) /= <<>> /\ AllDigits(Unsigned(s)) /\ (s = <<>> \/ Head(s) /= "+")

\* a decimal representation of a number that is not an integer: digits, a point,
\* and digits that are not all zero
IsDecimalFraction(s) ==
    LET dot == IndexOf(s, ".")
    IN  /\ dot > 1 /\ dot < Len(s)
        /\ AllDigits(SubSeq(s, 1, dot - 1))
        /\ AllDigits(SubSeq(s, dot + 1, Len(s)))
        /\ \E i \in (dot + 1)..Len(s) : s[i] /= "0"

\* C13: IntegerDataType().__set_value__(t) succeeds for every decimal text t of an
\* integer n and leaves the native int n; the text of a number that is not an
\* integer is rejected.
C13_RoundTrip ==
    (call.desc /= 0 /\ Called.kind = "Integer" /\ Called.convert /\ call.raw.t = "str") =>
        /\ IsDecimalInteger(call.raw.v) =>
              /\ Accepted
              /\ Called.value.t = "int"
              /\ Len(Unsigned(call.raw.v)) <= MaxIntDigits =>
                    Called.value.v = Signed(call.raw.v, DigitsValue(Unsigned(call.raw.v)))
        /\ IsDecimalFraction(call.raw.v) => Rejected

\* the literals of the boolean conversion
TrueLiterals == {<<"t", "r", "u", "e">>, <<"1">>, <<"y", "e", "s">>, <<"y">>}
FalseLiterals == {<<"f", "a", "l", "s", "e">>, <<"0">>, <<"n", "o">>, <<"n">>}

\* what the boolean conversion is specified to give for a raw value: "True",
\* "False" or "reject"
BooleanOf(raw) ==
    CASE raw.t = "bool" -> IF raw.v THEN "True" ELSE "False"
      [] raw.t = "int" -> IF raw.v = 1 THEN "True" ELSE IF raw.v = 0 THEN "False" ELSE "reject"
      [] raw.t = "str" -> IF Lower(Strip(raw.v)) \in TrueLiterals THEN "True"
                          ELSE IF Lower(Strip(raw.v)) \in FalseLiterals THEN "False"
                          ELSE "reject"
      [] OTHER -> "reject"

\* C14: with convert on, a Boolean descriptor keeps a native bool, takes the texts
\* true/1/yes/y as True and false/0/no/n as False after trimming and lower-casing,
\* takes the integers 1 and 0 as True and False, and raises ValueError for every
\* other integer, every other text and every value of another type.
C14_BooleanTotal ==
    (call.desc /= 0 /\ Called.kind = "Boolean" /\ Called.convert) =>
        CASE BooleanOf(call.raw) = "True" -> Accepted /\ Called.value = PyBool(TRUE)
          [] BooleanOf(call.raw) = "False" -> Accepted /\ Called.value = PyBool(FALSE)
          [] OTHER -> call.err = "ValueError"

\* the text " n " was trimmed and taken as False
C14_Witness ==
    /\ Accepted
    /\ Called.kind = "Boolean" /\ Called.convert
    /\ call.raw = PyStr(<<" ", "n", " ">>)
    /\ Called.value = PyBool(FALSE)

\* the last call went through conversion and type check and ran the built-in check
ReachedSemanticCheck == call.desc /= 0 /\ Len(call.log) >= 5

\* C15: a PositiveInteger accepts a raw value exactly when its conversion gives an
\* integer above zero, a NegativeInteger exactly when it gives one below zero; zero
\* is rejected by both with a ValueError, and the accepted value is int(raw).
C15_StrictSign ==
    (call.desc /= 0 /\ Called.kind \in {"PositiveInteger", "NegativeInteger"}) =>
        /\ Accepted => ReachedSemanticCheck
        /\ ReachedSemanticCheck =>
              /\ Accepted <=> IF Called.kind = "PositiveInteger"
                              THEN IntOf(NativeData(Called.value)) > 0
                              ELSE IntOf(NativeData(Called.value)) < 0
              /\ Rejected => call.err = "ValueError" /\ call.stage = "value_validator"
              /\ Accepted => PyIntOf(call.raw) = [err |-> "none", n |-> IntOf(NativeData(Called.value))]

\* zero passed the conversion of a PositiveInteger and was rejected by its check
C15_Witness ==
    /\ ReachedSemanticCheck
    /\ Called.kind = "PositiveInteger" /\ Called.convert
    /\ call.raw = PyStr(<<"0">>)
    /\ Called.value = PyInt(0)
    /\ call.err = "ValueError" /\ call.stage = "value_validator"

\* the rules of a strong password in the order they are specified to be tested
RuleOrder == <<"min_length", "max_length", "uppercase", "lowercase", "digit", "special", "common">>

\* the password text breaks the rule, for the descriptor d
Breaks(rule, text, d) ==
    CASE rule = "min_length" -> Len(text) < d.min_length
      [] rule = "max_length" -> d.max_length /= 0 /\ Len(text) > d.max_length
      [] rule = "uppercase" -> \A i \in 1..Len(text) : ~IsUpper(text[i])
      [] rule = "lowercase" -> \A i \in 1..Len(text) : ~IsLower(text[i])
      [] rule = "digit" -> \A i \in 1..Len(text) : ~IsDigit(text[i])
      [] rule = "special" -> \A i \in 1..Len(text) : text[i] \notin SPECIAL_CHARS
      [] OTHER -> \E w \in CommonPatterns : Contains(Lower(text), w)

\* the last call handed a text to a StrongPassword and reached its built-in check
PasswordChecked ==
    /\ ReachedSemanticCheck
    /\ Called.kind = "StrongPassword"
    /\ call.raw.t = "str"

\* C16: the check of a StrongPassword reports the earliest broken rule in the order
\* minimum length, maximum length, uppercase, lowercase, digit, special character,
\* common pattern (case-insensitive), and it reports exactly that one; a password
\* that breaks no rule passes the check.
C16_RuleOrder ==
    PasswordChecked =>
        IF \E k \in DOMAIN RuleOrder : Breaks(RuleOrder[k], call.raw.v, Called)
        THEN /\ call.err = "ValueError" /\ call.stage = "value_validator"
             /\ \E k \in DOMAIN RuleOrder :
                   /\ call.rule = RuleOrder[k]
                   /\ Breaks(RuleOrder[k], call.raw.v, Called)
                   /\ \A j \in 1..(k - 1) : ~Breaks(RuleOrder[j], call.raw.v, Called)
        ELSE call.stage /= "value_validator" /\ call.rule = "none"

\* a password without uppercase letter and without digit was reported for the
\* uppercase letter
C16_Witness ==
    /\ PasswordChecked
    /\ call.raw = PyStr(<<"s", "e", "c", "r", "e", "t", "!", "!">>)
    /\ call.err = "ValueError"
    /\ call.rule = "uppercase"

\* C17: a character-class rule of a StrongPassword is enforced only if its toggle
\* is on: with special_chars, uppercase, lowercase or numbers set to False a
\* password is not rejected for lacking a character of that class.
C17_TogglesRespected ==
    PasswordChecked =>
        /\ ~Called.special_chars => call.rule /= "special"
        /\ ~Called.uppercase => call.rule /= "uppercase"
        /\ ~Called.lowercase => call.rule /= "lowercase"
        /\ ~Called.numbers => call.rule /= "digit"

\* C18: an Email descriptor accepts a text only if it holds exactly one "@", with
\* a non-empty local part before it and after it a domain that holds a "." and
\* has passed the domain validation; a text with a second "@" is rejected.
C18_EmailGrammar ==
    (Accepted /\ Called.kind = "Email" /\ call.raw.t = "str") =>
        /\ Len(SplitOn(call.raw.v, "@")) = 2
        /\ SplitOn(call.raw.v, "@")[1] /= <<>>
        /\ IndexOf(SplitOn(call.raw.v, "@")[2], ".") > 0
        /\ is_valid_domain_name(SplitOn(call.raw.v, "@")[2])

-----------------------------------------------------------------------------
(* The client of a secret: it builds a SecretDataType, hands it a raw value,
   keeps the canonical value and calls members on what it holds *)

\* the raw values handed to the SecretDataType
SecretRaws == {PyStr(<<"s", "e", "c", "r", "e", "t">>), PyStr(NOT_SET), PyInt(5), PyFloat(15),
               PyBool(TRUE), PyList(<<1>>), PyDict(<<<<1, 1>>>>), PyTuple(<<1>>),
               PyBytes(<<120>>), PySet({1}), PyNone, PyCustom(<<10>>),
               PyFunction("json.dumps"), PyClass("CustomClass")}

\* the members the client calls and the arguments it passes
MemberNames == {"__add__", "__eq__", "__ne__", "__lt__", "__le__", "__gt__", "__ge__",
                "__len__", "__iter__", "append"}
MemberArgs == {PyStr(<<"1", "2", "3">>), PyInt(3), PyBool(TRUE), PyList(<<2>>), PyCustom(<<1>>)}
TakesArgument(name) == name \notin {"__len__", "__iter__"}

\* one PyAppEnv has been constructed, with any arguments, as the flags are meant
\* to be set once before any value is built
InitProxy ==
    /\ glb_show_secured_values \in BOOLEAN
    /\ glb_make_secured_values_mutable \in BOOLEAN
    /\ logger_set = TRUE
    /\ descs = <<>>
    /\ call = NoCall
    /\ cur = NoValue
    /\ op = NoOp
    /\ envs = <<>>
    /\ cfgop = NoCfgOp

ObtainReturns(raw, run) ==
    /\ run.err /= "unmodelled"
    /\ cur' = IF run.err = "none"
              THEN [held |-> TRUE, value |-> run.d.value, raw |-> raw, chain |-> 0]
              ELSE NoValue
    /\ op' = [name |-> "__set_value__", arg |-> raw, recv |-> PyNone, err |-> run.err,
              value |-> IF run.err = "none" THEN run.d.value ELSE PyNone]
    /\ UNCHANGED <<glb_show_secured_values, glb_make_secured_values_mutable,
                   logger_set, descs, call, envs, cfgop>>

\* d = SecretDataType(); d.__set_value__(raw); the client keeps d.value
Obtain(raw) ==
    ObtainReturns(raw, set_value(NewDescriptor("Secret", "none"), raw, glb_show_secured_values,
                                 glb_make_secured_values_mutable, logger_set))

MemberReturns(name, arg, r) ==
    /\ op' = [name |-> name, arg |-> arg, recv |-> cur.value, err |-> r.err, value |-> r.value]
    /\ cur' = [cur EXCEPT !.value = IF r.err = "none" /\ r.value.t /= "NoneType"
                                    THEN r.value ELSE r.self,
                          !.chain = @ + 1]
    /\ UNCHANGED <<glb_show_secured_values, glb_make_secured_values_mutable,
                   logger_set, descs, call, envs, cfgop>>

\* the client calls value.name(arg) on what it holds and goes on with the result,
\* or with the receiver when the call gave nothing
Member(name, arg) ==
    /\ cur.held
    /\ cur.chain < MaxChain
    /\ TakesArgument(name) \/ arg = PyNone
    /\ name = "append" => arg.t = "int"
    /\ MemberReturns(name, arg, MemberCall(cur.value, name, arg))

NextProxy ==
    \/ \E raw \in SecretRaws : Obtain(raw)
    \/ \E name \in MemberNames, arg \in MemberArgs \cup {PyNone} : Member(name, arg)

SpecProxy == InitProxy /\ [][NextProxy]_vars

-----------------------------------------------------------------------------
(* classes.py: EnvConfig and BaseEnvironment.  A plain dict is
   [kind |-> "dict", items], its items a sequence of [key, value] in insertion
   order; an EnvConfig is [kind |-> "EnvConfig", store, attrs,
   is_dict_initialized, finalized_keys]: the items of the dict it extends (the
   values are ConfigValue cells), its instance attributes, its flag, and the keys
   it held when its constructor returned.  A BaseEnvironment is
   [config, validators, loads] with validators a function from keys to
   descriptor identities. *)

ItemKeys(items) == {items[i].key : i \in DOMAIN items}
ItemOf(items, key) == items[CHOOSE i \in DOMAIN items : items[i].key = key]

\* dict.__setitem__
PutItem(items, key, value) ==
    IF key \in ItemKeys(items)
    THEN [i \in DOMAIN items |-> IF items[i].key = key THEN [key |-> key, value |-> value]
                                 ELSE items[i]]
    ELSE Append(items, [key |-> key, value |-> value])

\* dict.__delitem__ of a key
RemoveItem(items, key) == SelectSeq(items, LAMBDA it : it.key /= key)

\* the names getattr finds on every EnvConfig: the members of dict and of the class
ClassAttrs == {"get", "pop", "popitem", "items", "keys", "values", "get_config_value"}

IsConfigValue(value) == value.t = "ConfigValue"

\* EnvConfig.items(): the keys with the values of their cells
EnvConfig_items(store) ==
    [i \in DOMAIN store |-> [key |-> store[i].key, value |-> store[i].value.value]]

\* EnvConfig.__init__(derieved_config)
EnvConfig_init(store) ==
    [kind |-> "EnvConfig", store |-> store,
     attrs |-> SelectSeq(EnvConfig_items(store), LAMBDA it : it.key \notin ClassAttrs),
     is_dict_initialized |-> TRUE,
     finalized_keys |-> ItemKeys(store)]

\* the outcome of an operation on an EnvConfig: the exception, the value returned
\* and the collection after it
CfgRaises(e, cfg) == [err |-> e, value |-> PyNone, cfg |-> cfg]
CfgReturns(x, cfg) == [err |-> "none", value |-> x, cfg |-> cfg]

\* lines 137-141 of __setitem__: an attribute of that name is kept, a missing one
\* is created with what dict.__setitem__ returned, None
SetItemAttr(attrs, key) ==
    IF key \in ClassAttrs \/ key \in ItemKeys(attrs) THEN attrs
    ELSE PutItem(attrs, key, PyNone)

\* a faulty __setitem__ that does not look at is_dict_initialized
\* (C2_SetItemRejected fails with it)
EnvConfig_setitem_unguarded(cfg, key, value) ==
    IF ~IsConfigValue(value) THEN CfgRaises("ValueError", cfg)
    ELSE CfgReturns(PyNone, [cfg EXCEPT !.store = PutItem(@, key, value),
                                        !.attrs = SetItemAttr(@, key)])

\* EnvConfig.__setitem__(key, value)
EnvConfig_setitem(cfg, key, value) ==
    IF cfg.is_dict_initialized THEN CfgRaises("ImmutableError", cfg)
    ELSE IF ~IsConfigValue(value) THEN CfgRaises("ValueError", cfg)
    ELSE CfgReturns(PyNone, [cfg EXCEPT !.store = PutItem(@, key, value),
                                        !.attrs = SetItemAttr(@, key)])

\* EnvConfig.__delitem__(key)
EnvConfig_delitem(cfg, key) ==
    IF key \notin ItemKeys(cfg.store) THEN CfgRaises("KeyError", cfg)
    ELSE CfgReturns(PyNone, [cfg EXCEPT !.store = RemoveItem(@, key),
                                        !.attrs = RemoveItem(@, key)])

\* EnvConfig.pop(key): the default None for a missing key, else the cell
EnvConfig_pop(cfg, key) ==
    IF key \notin ItemKeys(cfg.store)
    THEN CfgReturns(PyNone, [cfg EXCEPT !.attrs = RemoveItem(@, key)])
    ELSE CfgReturns(ItemOf(cfg.store, key).value,
                    [cfg EXCEPT !.store = RemoveItem(@, key), !.attrs = RemoveItem(@, key)])

\* EnvConfig.popitem(): the item inserted last
EnvConfig_popitem(cfg) ==
    IF cfg.store = <<>> THEN CfgRaises("KeyError", cfg)
    ELSE CfgReturns(cfg.store[Len(cfg.store)].value,
                    [cfg EXCEPT !.store = SubSeq(@, 1, Len(@) - 1),
                                !.attrs = RemoveItem(@, cfg.store[Len(cfg.store)].key)])

\* the progress of __load_config: the descriptors, derieved_config, the exception
StartLoad(ds) == [descs |-> ds, store |-> <<>>, err |-> "none"]

\* a faulty loop body that logs the error of a validator and goes on to build the
\* cell (C4_CellsPassed fails with it)
ValidatedSwallowing(st, key, id, run, logger) ==
    [st EXCEPT !.descs[id] = run.d,
               !.store = IF run.d.has_value
                         THEN PutItem(@, key, ConfigValue(id, run.d, run.err = "none"))
                         ELSE @]

\* a faulty handler that raises a new Exception with the message of the one the
\* validator raised, as PyAppEnv.update_config does (C19_UserExceptionPropagates
\* fails with it)
ValidatedWrapping(st, key, id, run, logger) ==
    IF run.err /= "none"
    THEN [st EXCEPT !.descs[id] = run.d,
                    !.err = IF run.err = "unmodelled" THEN run.err ELSE "Exception"]
    ELSE [st EXCEPT !.descs[id] = run.d,
                    !.store = PutItem(@, key, ConfigValue(id, run.d, run.err = "none"))]

\* lines 195-205 and 211-212: the key has a validator, whose __set_value__ gave run
Validated(st, key, id, run, logger) ==
    IF run.err /= "none"
    THEN [st EXCEPT !.descs[id] = run.d,
                    !.err = IF run.err = "unmodelled" \/ logger THEN run.err ELSE "NameError"]
    ELSE [st EXCEPT !.descs[id] = run.d,
                    !.store = PutItem(@, key, ConfigValue(id, run.d, run.err = "none"))]

\* lines 207-212: the key has no validator; the __set_value__ of a new AnyDataType,
\* which takes the next identity, gave run
Defaulted(st, key, run) ==
    IF run.err /= "none" THEN [st EXCEPT !.err = run.err]
    ELSE [st EXCEPT !.descs = Append(@, run.d),
                    !.store = PutItem(@, key, ConfigValue(Len(st.descs) + 1, run.d,
                                                          run.err = "none"))]

\* the body of the loop of __load_config for one item
LoadItem(st, key, value, validators, show, mutable, logger) ==
    IF key \in DOMAIN validators
    THEN Validated(st, key, validators[key],
                   set_value(st.descs[validators[key]], value, show, mutable, logger), logger)
    ELSE Defaulted(st, key, set_value(NewDescriptor("Any", "none"), value, show, mutable, logger))

RECURSIVE LoadItems(_, _, _, _, _, _)
\* the loop of __load_config: an exception ends it
LoadItems(st, items, validators, show, mutable, logger) ==
    IF items = <<>> \/ st.err /= "none" THEN st
    ELSE LoadItems(LoadItem(st, items[1].key, items[1].value, validators, show, mutable, logger),
                   Tail(items), validators, show, mutable, logger)

\* config.items() of line 189, for the dict or the EnvConfig that self.config is
ConfigItems(config) ==
    IF config.kind = "EnvConfig" THEN EnvConfig_items(config.store) ELSE config.items

\* BaseEnvironment.__load_config(self.config, self.validators)
load_config(env, ds, show, mutable, logger) ==
    IF env.config.kind \notin {"dict", "EnvConfig"}
    THEN [StartLoad(ds) EXCEPT !.err = "InvalidEnvironmentConfigError"]
    ELSE LoadItems(StartLoad(ds), ConfigItems(env.config), env.validators, show, mutable, logger)

-----------------------------------------------------------------------------
(* The client of an environment: it builds a BaseEnvironment over descriptors it
   made, loads it, and works on the EnvConfig the load leaves in config *)

EnvKeys == <<"a", "b">>
OtherKey == "c"
EnvValues == {PyStr(<<"1", "2">>), PyStr(<<"s", "e", "c", "r", "e", "t">>), PyStr(NOT_SET)}

\* the config arguments: dicts over a prefix of the keys, and a value that is no dict
EnvDicts ==
    {[kind |-> "dict", items |-> <<>>], [kind |-> "list", items |-> <<>>]}
    \cup {[kind |-> "dict", items |-> <<[key |-> EnvKeys[1], value |-> v]>>] : v \in EnvValues}
    \cup {[kind |-> "dict", items |-> <<[key |-> EnvKeys[1], value |-> v],
                                        [key |-> EnvKeys[2], value |-> w]>>] :
            v \in EnvValues, w \in EnvValues}

\* the descriptors the client made for its validators
EnvDescriptors == <<NewDescriptor("Integer", "none"), NewDescriptor("Secret", "none")>>

\* the validators arguments: some of the keys, each with one of the descriptors
EnvValidators ==
    UNION {[S -> DOMAIN EnvDescriptors] : S \in SUBSET {EnvKeys[i] : i \in DOMAIN EnvKeys}}

\* the flags and the logger: as the module leaves them, or as a PyAppEnv set them
EnvGlobals == {<<TRUE, FALSE, FALSE>>, <<FALSE, TRUE, TRUE>>, <<FALSE, FALSE, TRUE>>}

\* BaseEnvironment(config, validators) has been constructed
InitEnv ==
    /\ \E g \in EnvGlobals : /\ glb_show_secured_values = g[1]
                             /\ glb_make_secured_values_mutable = g[2]
                             /\ logger_set = g[3]
    /\ descs = EnvDescriptors
    /\ call = NoCall
    /\ cur = NoValue
    /\ op = NoOp
    /\ \E config \in EnvDicts, validators \in EnvValidators :
          envs = <<[config |-> config, validators |-> validators, loads |-> 0]>>
    /\ cfgop = NoCfgOp

\* a faulty _init_from_PyEnv that installs the cells built so far when a key
\* raises (C29_AllOrNothing fails with it)
InitFromPyEnvInstallsPartial(e, st) ==
    /\ st.err /= "unmodelled"
    /\ descs' = st.descs
    /\ envs' = [envs EXCEPT ![e].loads = @ + 1, ![e].config = EnvConfig_init(st.store)]
    /\ cfgop' = [name |-> "_init_from_PyEnv", env |-> e, key |-> "", value |-> PyNone,
                 err |-> st.err, before |-> envs[e].config]
    /\ UNCHANGED <<glb_show_secured_values, glb_make_secured_values_mutable,
                   logger_set, call, cur, op>>

InitFromPyEnvReturns(e, st) ==
    /\ st.err /= "unmodelled"
    /\ descs' = st.descs
    /\ envs' = [envs EXCEPT ![e].loads = @ + 1,
                            ![e].config = IF st.err = "none" THEN EnvConfig_init(st.store)
                                          ELSE @]
    /\ cfgop' = [name |-> "_init_from_PyEnv", env |-> e, key |-> "", value |-> PyNone,
                 err |-> st.err, before |-> envs[e].config]
    /\ UNCHANGED <<glb_show_secured_values, glb_make_secured_values_mutable,
                   logger_set, call, cur, op>>

\* envs[e]._init_from_PyEnv()
InitFromPyEnv(e) ==
    /\ envs[e].loads < MaxLoads
    /\ InitFromPyEnvReturns(e, load_config(envs[e], descs, glb_show_secured_values,
                                           glb_make_secured_values_mutable, logger_set))

\* an operation of the client on envs[e].config, an EnvConfig, has given r
CfgOpReturns(name, e, key, value, r) ==
    /\ envs' = [envs EXCEPT ![e].config = r.cfg]
    /\ cfgop' = [name |-> name, env |-> e, key |-> key, value |-> value, err |-> r.err,
                 before |-> envs[e].config]
    /\ UNCHANGED <<glb_show_secured_values, glb_make_secured_values_mutable,
                   logger_set, descs, call, cur, op>>

IsLoaded(e) == envs[e].config.kind = "EnvConfig"
CfgKeys == {EnvKeys[i] : i \in DOMAIN EnvKeys} \cup {OtherKey}

\* the values the client assigns: a plain value, or a cell it built from one of
\* its descriptors
AssignedValues ==
    {PyInt(5)} \cup {ConfigValue(i, descs[i], FALSE) : i \in {j \in DOMAIN descs : descs[j].has_value}}

\* envs[e].config[key] = value
SetItem(e, key, value) ==
    /\ IsLoaded(e)
    /\ CfgOpReturns("__setitem__", e, key, value, EnvConfig_setitem(envs[e].config, key, value))

\* del envs[e].config[key]
DelItem(e, key) ==
    /\ IsLoaded(e)
    /\ CfgOpReturns("__delitem__", e, key, PyNone, EnvConfig_delitem(envs[e].config, key))

\* envs[e].config.pop(key)
Pop(e, key) ==
    /\ IsLoaded(e)
    /\ CfgOpReturns("pop", e, key, PyNone, EnvConfig_pop(envs[e].config, key))

\* envs[e].config.popitem()
PopItem(e) ==
    /\ IsLoaded(e)
    /\ CfgOpReturns("popitem", e, "", PyNone, EnvConfig_popitem(envs[e].config))

NextEnv ==
    \/ \E e \in DOMAIN envs : InitFromPyEnv(e)
    \/ \E e \in DOMAIN envs, key \in CfgKeys, value \in AssignedValues : SetItem(e, key, value)
    \/ \E e \in DOMAIN envs, key \in CfgKeys : DelItem(e, key)
    \/ \E e \in DOMAIN envs, key \in CfgKeys : Pop(e, key)
    \/ \E e \in DOMAIN envs : PopItem(e)

SpecEnv == InitEnv /\ [][NextEnv]_vars

-----------------------------------------------------------------------------
(* The client of the application: it builds one BaseEnvironment over a descriptor
   it made, constructs a PyAppEnv with it as the only environment, and reads the
   EnvConfig that the construction leaves in the environment *)

\* the name of the environment in env_configs, and the env_name arguments: that
\* name and one that env_configs lacks
AppEnvName == "TEST"
AppEnvNames == {AppEnvName, "PROD"}

\* the key of the configuration: a plain one, and the name of a method of EnvConfig
AppKeys == {"a", "items"}

\* the values of the configuration: for every class one that it accepts, and one
\* that no class accepts
AppValues == {PyStr(<<"s", "e", "c", "r", "e", "t">>), PyStr(<<"1", "2">>),
              PyStr(<<"Y", "E", "S">>), PyStr(<<"[", "1", "]">>),
              PyStr(<<"A", "b", "c", "@", "2", "2", "6", "5">>),
              PyStr(<<"a", "@", "b", ".", "c", "o", "m">>),
              PyInt(-1), PyDict(<<<<1, 1>>>>), PyStr(NOT_SET)}

\* the descriptor of the client: every class, without and with a value_validator
\* that raises
AppDescriptors == {NewDescriptor(k, u) : k \in Kinds, u \in {"none", "raise"}}

\* the logger argument: none, or an object with the four logging methods
AppLoggers == {PyNone, PyCustom(<<1>>)}

\* BaseEnvironment({key: value}, validators) has been constructed, in a process
\* where no PyAppEnv exists yet: with a descriptor the client made as the
\* validator of the key, or with no validators
InitApp ==
    /\ InitGlobals
    /\ call = NoCall
    /\ cur = NoValue
    /\ op = NoOp
    /\ \E key \in AppKeys, value \in AppValues :
          \/ /\ \E d \in AppDescriptors : descs = <<d>>
             /\ envs = <<[config |-> [kind |-> "dict",
                                      items |-> <<[key |-> key, value |-> value]>>],
                          validators |-> [k \in {key} |-> 1], loads |-> 0]>>
          \/ /\ descs = <<>>
             /\ envs = <<[config |-> [kind |-> "dict",
                                      items |-> <<[key |-> key, value |-> value]>>],
                          validators |-> <<>>, loads |-> 0]>>
    /\ cfgop = NoCfgOp

\* the names of the environments in env_configs: envs[i] is env_configs[AppConfigNames[i]]
AppConfigNames == <<"TEST", "PROD">>
ConfigNames == {AppConfigNames[i] : i \in DOMAIN envs}
NamedEnv(name) == CHOOSE i \in DOMAIN envs : AppConfigNames[i] = name

\* an env_name or default_env that is not given: None, or the empty text
NoName == ""

\* os.environ: the process has variables
os_environ == <<[key |-> "APPLICATION_ENV", value |-> PyStr(<<"V">>)]>>

\* the construction of a PyAppEnv with the arguments args has ended in the method
\* stage with the exception err, or has returned; selected is the environment of
\* self.env_name, 0 when set_env did not return
PyAppEnvReturns(args, selected, stage, err) ==
    cfgop' = [name |-> "PyAppEnv", env |-> selected,
              key |-> IF selected = 0 THEN NoName ELSE AppConfigNames[selected],
              value |-> args.logger, err |-> err,
              before |-> IF selected = 0 THEN PyNone ELSE envs[selected].config,
              show |-> args.show, mutable |-> args.mutable, stage |-> stage, args |-> args]

\* a faulty constructor that loads the environments before it assigns the flags
\* (C22_PolicyBeforeLoading fails with it)
PolicyAfterLoad(before, assigned) == before

\* the flag that convert_to_secure_value finds while load_all_env runs: lines 55
\* and 56 of __init__ have assigned it when line 66 is reached
PolicyAtLoad(before, assigned) == assigned

\* a faulty selection that prefers default_env (C24_Selection fails with it)
set_env_default_first(args) ==
    IF args.default_env /= NoName THEN args.default_env ELSE args.env_name

\* set_env, lines 96-98: env_name, and default_env when env_name is not given
set_env(args) ==
    IF args.env_name /= NoName THEN args.env_name ELSE args.default_env

\* line 61 of __init__: self.default_env = default_env or self.__env_name
self_default_env(args) ==
    IF args.default_env /= NoName THEN args.default_env ELSE args.env_name

\* the progress of PyAppEnv.load_config: the environments, the descriptors, the
\* exception
Loading(es, ds, err) == [envs |-> es, descs |-> ds, err |-> err]

\* lines 229-231 of load_config for the i-th environment, whose _init_from_PyEnv
\* gave st
EnvLoaded(es, i, st) ==
    Loading([es EXCEPT ![i].loads = @ + 1,
                       ![i].config = IF st.err = "none" THEN EnvConfig_init(st.store) ELSE @],
            st.descs, st.err)

RECURSIVE LoadEnvs(_, _, _, _)
\* the loop of PyAppEnv.load_config from the i-th environment on: the name of an
\* environment of these models is no attribute of a PyAppEnv; an exception ends
\* the loop
LoadEnvs(ld, i, show, mutable) ==
    IF i > Len(ld.envs) \/ ld.err /= "none" THEN ld
    ELSE LoadEnvs(EnvLoaded(ld.envs, i, load_config(ld.envs[i], ld.descs, show, mutable, TRUE)),
                  i + 1, show, mutable)

\* load_config() has given ld: self.env is the config of the selected environment
load_all_env(args, selected, ld) ==
    /\ ld.err /= "unmodelled"
    /\ descs' = ld.descs
    /\ envs' = ld.envs
    /\ PyAppEnvReturns(args, selected, IF ld.err = "none" THEN "done" ELSE "load_config",
                       ld.err)

\* the constructor after set_env has returned env: validate_parameters keeps the
\* BaseEnvironment objects, load_dotenv_values has no value of a .env file and
\* tests membership in a BaseEnvironment for the variables of the process
PyAppEnv_load(args, env) ==
    IF self_default_env(args) \notin ConfigNames
    THEN /\ PyAppEnvReturns(args, NamedEnv(env), "validate_parameters",
                            "InvalidEnvironmentConfigError")
         /\ UNCHANGED <<descs, envs>>
    ELSE IF args.override_from_application_env /\ os_environ /= <<>>
    THEN /\ PyAppEnvReturns(args, NamedEnv(env), "load_dotenv_values", "TypeError")
         /\ UNCHANGED <<descs, envs>>
    ELSE load_all_env(args, NamedEnv(env),
                      LoadEnvs(Loading(envs, descs, "none"), 1,
                               PolicyAtLoad(glb_show_secured_values, args.show),
                               PolicyAtLoad(glb_make_secured_values_mutable, args.mutable)))

\* PyAppEnv(env_name, env_configs, default_env, application_env_available,
\*          override_from_application_env, logger, show_secured_values=show,
\*          make_secured_values_mutable=mutable), where env_configs holds the
\* environments envs under the names AppConfigNames and is not empty
PyAppEnv_init(args) ==
    /\ \A e \in DOMAIN envs : envs[e].loads < MaxLoads
    /\ UNCHANGED <<call, cur, op>>
    /\ IF args.logger.t /= "NoneType"
       THEN \* load_logger reads self.logger, which it did not assign
            /\ PyAppEnvReturns(args, 0, "load_logger", "AttributeError")
            /\ UNCHANGED <<glb_show_secured_values, glb_make_secured_values_mutable,
                           logger_set, descs, envs>>
       ELSE /\ logger_set' = TRUE
            /\ set_secured_values(args.show)
            /\ set_secured_mutable(args.mutable)
            /\ IF set_env(args) \notin ConfigNames
               THEN \* set_env: the environment is not in env_configs
                    /\ PyAppEnvReturns(args, 0, "set_env", "InvalidEnvironmentConfigError")
                    /\ UNCHANGED <<descs, envs>>
               ELSE PyAppEnv_load(args, set_env(args))

\* the arguments of a construction
PyAppEnvArgs(env_name, default, available, override, logger, show, mutable) ==
    [env_name |-> env_name, default_env |-> default,
     application_env_available |-> available, override_from_application_env |-> override,
     logger |-> logger, show |-> show, mutable |-> mutable]

\* EnvConfig.__getitem__(key)
EnvConfig_getitem(cfg, key) ==
    IF key \notin ItemKeys(cfg.store) THEN CfgRaises("KeyError", cfg)
    ELSE CfgReturns(ItemOf(cfg.store, key).value.value, cfg)

\* EnvConfig.get(key) with the default None
EnvConfig_get(cfg, key) ==
    IF key \notin ItemKeys(cfg.store) THEN CfgReturns(PyNone, cfg)
    ELSE CfgReturns(ItemOf(cfg.store, key).value.value, cfg)

\* EnvConfig.get_config_value(key)
EnvConfig_get_config_value(cfg, key) == EnvConfig_get(cfg, key)

\* EnvConfig.values(): the values of the cells, in the order of insertion
EnvConfig_values(cfg) ==
    CfgReturns([i \in DOMAIN cfg.store |-> cfg.store[i].value.value], cfg)

\* getattr(cfg, key): the attribute of the instance, else the member of the class
EnvConfig_getattr(cfg, key) ==
    IF key \in ItemKeys(cfg.attrs) THEN CfgReturns(ItemOf(cfg.attrs, key).value, cfg)
    ELSE IF key \in ClassAttrs THEN CfgReturns(PyFunction(key), cfg)
    ELSE CfgRaises("AttributeError", cfg)

\* envs[e].config[key]
GetItem(e, key) ==
    /\ IsLoaded(e)
    /\ LET r == EnvConfig_getitem(envs[e].config, key)
       IN  CfgOpReturns("__getitem__", e, key, r.value, r)

\* envs[e].config.get(key)
Get(e, key) ==
    /\ IsLoaded(e)
    /\ LET r == EnvConfig_get(envs[e].config, key)
       IN  CfgOpReturns("get", e, key, r.value, r)

\* envs[e].config.get_config_value(key)
GetConfigValue(e, key) ==
    /\ IsLoaded(e)
    /\ LET r == EnvConfig_get_config_value(envs[e].config, key)
       IN  CfgOpReturns("get_config_value", e, key, r.value, r)

\* envs[e].config.values()
Values(e) ==
    /\ IsLoaded(e)
    /\ LET r == EnvConfig_values(envs[e].config)
       IN  CfgOpReturns("values", e, "", r.value, r)

\* list(envs[e].config.items())
Items(e) ==
    /\ IsLoaded(e)
    /\ CfgOpReturns("items", e, "", EnvConfig_items(envs[e].config.store),
                    CfgReturns(PyNone, envs[e].config))

\* envs[e].config.key, the attribute of that name
GetAttr(e, key) ==
    /\ IsLoaded(e)
    /\ LET r == EnvConfig_getattr(envs[e].config, key)
       IN  CfgOpReturns("__getattribute__", e, key, r.value, r)

\* key in envs[e].config: dict.__contains__, which EnvConfig inherits
HasKey(e, key) ==
    /\ IsLoaded(e)
    /\ CfgOpReturns("__contains__", e, key, PyBool(key \in ItemKeys(envs[e].config.store)),
                    CfgReturns(PyNone, envs[e].config))

\* list(envs[e].config.keys()): dict.keys, which EnvConfig inherits
Keys(e) ==
    /\ IsLoaded(e)
    /\ CfgOpReturns("keys", e, "", [i \in DOMAIN envs[e].config.store |->
                                       envs[e].config.store[i].key],
                    CfgReturns(PyNone, envs[e].config))

\* the setters of the properties show_secured_values and
\* make_secured_values_mutable, for an object whose private attribute is held: the
\* exception raised
property_setter(held, value) ==
    IF held.t /= "NoneType" THEN "ImmutableError"
    ELSE IF value.t /= "bool" THEN "TypeError"
    ELSE "none"

\* an assignment to a property of the PyAppEnv has ended with err
PropertySetReturns(name, e, value, err) ==
    /\ cfgop' = [name |-> name, env |-> e, key |-> "", value |-> value, err |-> err,
                 before |-> envs[e].config]
    /\ UNCHANGED <<logger_set, descs, call, cur, op, envs>>

\* app.show_secured_values = value, for the PyAppEnv whose construction loaded
\* envs[e]: __init__ left the argument, a bool, in _show_secured_values
AssignShowSecuredValues(e, value) ==
    /\ IsLoaded(e)
    /\ LET err == property_setter(PyBool(glb_show_secured_values), value)
       IN  /\ PropertySetReturns("show_secured_values", e, value, err)
           /\ IF err = "none" THEN set_secured_values(value.v)
              ELSE UNCHANGED glb_show_secured_values
    /\ UNCHANGED glb_make_secured_values_mutable

\* app.make_secured_values_mutable = value
AssignMakeSecuredValuesMutable(e, value) ==
    /\ IsLoaded(e)
    /\ LET err == property_setter(PyBool(glb_make_secured_values_mutable), value)
       IN  /\ PropertySetReturns("make_secured_values_mutable", e, value, err)
           /\ IF err = "none" THEN set_secured_mutable(value.v)
              ELSE UNCHANGED glb_make_secured_values_mutable
    /\ UNCHANGED glb_show_secured_values

AppReadKeys == AppKeys \cup {OtherKey}

\* the arguments the client constructs a PyAppEnv with
AppArgs ==
    {PyAppEnvArgs(env_name, NoName, FALSE, FALSE, logger, show, mutable) :
        env_name \in AppEnvNames, logger \in AppLoggers, show \in BOOLEAN, mutable \in BOOLEAN}

NextApp ==
    \/ \E args \in AppArgs : PyAppEnv_init(args)
    \/ \E e \in DOMAIN envs, key \in AppReadKeys : GetItem(e, key)
    \/ \E e \in DOMAIN envs, key \in AppReadKeys : Get(e, key)
    \/ \E e \in DOMAIN envs, key \in AppReadKeys : GetConfigValue(e, key)
    \/ \E e \in DOMAIN envs, key \in AppReadKeys : GetAttr(e, key)
    \/ \E e \in DOMAIN envs, key \in AppReadKeys : HasKey(e, key)
    \/ \E e \in DOMAIN envs : Keys(e)
    \/ \E e \in DOMAIN envs, value \in {PyBool(TRUE), PyBool(FALSE), PyInt(1)} :
          AssignShowSecuredValues(e, value)
    \/ \E e \in DOMAIN envs, value \in {PyBool(TRUE), PyBool(FALSE), PyInt(1)} :
          AssignMakeSecuredValuesMutable(e, value)
    \/ \E e \in DOMAIN envs : Values(e)
    \/ \E e \in DOMAIN envs : Items(e)

SpecApp == InitApp /\ [][NextApp]_vars

-----------------------------------------------------------------------------
(* The client that selects an environment: it builds two environments, TEST with
   an IntegerDataType for its key and PROD without validators, and constructs
   PyAppEnv objects over both, with and without env_name and default_env, and with
   the defaults of show_secured_values and make_secured_values_mutable *)

\* the values of env_name and default_env: not given, the two environments, and a
\* name that env_configs lacks
SelectNames == {NoName, AppConfigNames[1], AppConfigNames[2], "BAD"}

\* the key of both configurations, and the keys the client reads
SelectKey == "a"
SelectReadKeys == {SelectKey, os_environ[1].key}

\* the two environments have been constructed, in a process where no PyAppEnv
\* exists yet
InitSelect ==
    /\ InitGlobals
    /\ descs = <<NewDescriptor("Integer", "none")>>
    /\ call = NoCall
    /\ cur = NoValue
    /\ op = NoOp
    /\ \E v \in {PyStr(<<"1", "2">>), PyStr(<<"s", "e", "c", "r", "e", "t">>)},
          w \in {PyStr(<<"s", "e", "c", "r", "e", "t">>), PyStr(NOT_SET)} :
          envs = <<[config |-> [kind |-> "dict", items |-> <<[key |-> SelectKey, value |-> v]>>],
                    validators |-> [k \in {SelectKey} |-> 1], loads |-> 0],
                   [config |-> [kind |-> "dict", items |-> <<[key |-> SelectKey, value |-> w]>>],
                    validators |-> <<>>, loads |-> 0]>>
    /\ cfgop = NoCfgOp

\* the arguments the client constructs a PyAppEnv with: masking on, mutable form
SelectArgs ==
    {PyAppEnvArgs(env_name, default, available, override, logger, FALSE, TRUE) :
        env_name \in SelectNames, default \in SelectNames, available \in BOOLEAN,
        override \in BOOLEAN, logger \in AppLoggers}

NextSelect ==
    \/ \E args \in SelectArgs : PyAppEnv_init(args)
    \/ \E e \in DOMAIN envs, key \in SelectReadKeys : GetItem(e, key)
    \/ \E e \in DOMAIN envs, key \in SelectReadKeys : Get(e, key)

SpecSelect == InitSelect /\ [][NextSelect]_vars

-----------------------------------------------------------------------------
(* The client that shares descriptors: it registers one descriptor as validator
   of several keys and of two environments, as the tests do with the module-level
   validators, loads the environments and calls __set_value__ on the descriptors
   again *)

ReuseKeys == <<"a", "b">>
ReuseValues == {PyStr(<<"1", "2">>), PyStr(<<"s", "e", "c", "r", "e", "t">>)}
ReuseOtherValue == PyStr(<<"7">>)
ReuseRaws == {PyStr(<<"7">>), PyStr(<<"s", "e", "c", "r", "e", "t">>), PyInt(-1),
              PyStr(NOT_SET)}

\* the validators of the first environment: the Integer descriptor for the first
\* key, and for the second key the same descriptor, the Secret descriptor or none
ReuseValidators ==
    {[k \in {ReuseKeys[1], ReuseKeys[2]} |-> 1],
     [k \in {ReuseKeys[1], ReuseKeys[2]} |-> IF k = ReuseKeys[1] THEN 1 ELSE 2],
     [k \in {ReuseKeys[1]} |-> 1]}

\* the descriptors the client made and holds
ReuseDescriptors == <<NewDescriptor("PositiveInteger", "none"), NewDescriptor("Secret", "none")>>

\* the flags and the logger: as the module leaves them, or as a PyAppEnv set them
ReuseGlobals == {<<TRUE, FALSE, FALSE>>, <<FALSE, TRUE, TRUE>>}

\* two BaseEnvironment objects have been constructed over the descriptors
InitReuse ==
    /\ \E g \in ReuseGlobals : /\ glb_show_secured_values = g[1]
                             /\ glb_make_secured_values_mutable = g[2]
                             /\ logger_set = g[3]
    /\ descs = ReuseDescriptors
    /\ call = NoCall
    /\ cur = NoValue
    /\ op = NoOp
    /\ \E v \in ReuseValues, w \in ReuseValues, validators \in ReuseValidators :
          envs = <<[config |-> [kind |-> "dict",
                                items |-> <<[key |-> ReuseKeys[1], value |-> v],
                                            [key |-> ReuseKeys[2], value |-> w]>>],
                    validators |-> validators, loads |-> 0],
                   [config |-> [kind |-> "dict",
                                items |-> <<[key |-> ReuseKeys[1], value |-> ReuseOtherValue]>>],
                    validators |-> [k \in {ReuseKeys[1]} |-> 1], loads |-> 0]>>
    /\ cfgop = NoCfgOp

NextReuse ==
    \/ \E e \in DOMAIN envs : InitFromPyEnv(e)
    \/ \E i \in DOMAIN ReuseDescriptors, value \in ReuseRaws : SetValue(i, value)
    \/ \E i \in DOMAIN ReuseDescriptors : SetValueAgain(i)

SpecReuse == InitReuse /\ [][NextReuse]_vars

-----------------------------------------------------------------------------
(* Properties of the collection and of the loading (specification SpecEnv) *)

DeletionNames == {"__delitem__", "pop", "popitem"}

\* C2: on a finalized EnvConfig every item assignment, to a key it holds or to a
\* new one, of a ConfigValue or of anything else, raises ImmutableError and leaves
\* the keys, the cells and the attributes as they were.
C2_SetItemRejected ==
    (cfgop.name = "__setitem__" /\ cfgop.before.is_dict_initialized) =>
        /\ cfgop.err = "ImmutableError"
        /\ envs[cfgop.env].config = cfgop.before

\* a ConfigValue was assigned to a key that a finalized EnvConfig holds
C2_Witness ==
    /\ cfgop.name = "__setitem__"
    /\ cfgop.before.is_dict_initialized
    /\ IsConfigValue(cfgop.value)
    /\ cfgop.key \in ItemKeys(cfgop.before.store)
    /\ cfgop.err = "ImmutableError"

\* C3 as stated: on a finalized EnvConfig every deletion (del, pop, popitem) fails
\* with ImmutableError, and the collection keeps the keys it had when it was
\* finalized.
C3_NoDeletion ==
    /\ (cfgop.name \in DeletionNames /\ cfgop.before.is_dict_initialized) =>
          cfgop.err = "ImmutableError"
    /\ \A e \in DOMAIN envs :
          IsLoaded(e) => ItemKeys(envs[e].config.store) = envs[e].config.finalized_keys

\* the descriptor of a cell, holding the value of the cell
CellDescriptor(cell) == [descs[cell.validator] EXCEPT !.value = cell.value, !.has_value = TRUE]

\* C4: every cell of an EnvConfig that __load_config installed was built right
\* after a __set_value__ call of its descriptor that returned, for a key with a
\* validator and for a key with the defaulted AnyDataType alike, and its value
\* passes the precheck, the type check and the semantic check of that descriptor;
\* a load that raises installs no EnvConfig.
C4_CellsPassed ==
    /\ \A e \in DOMAIN envs :
          IsLoaded(e) =>
             \A i \in DOMAIN envs[e].config.store :
                /\ IsConfigValue(envs[e].config.store[i].value)
                /\ envs[e].config.store[i].value.passed
                /\ precheck_empty_value(CellDescriptor(envs[e].config.store[i].value)).err = "none"
                /\ validate_type(CellDescriptor(envs[e].config.store[i].value)).err = "none"
                /\ value_validator(CellDescriptor(envs[e].config.store[i].value)).err = "none"
    /\ (cfgop.name = "_init_from_PyEnv" /\ cfgop.err /= "none") =>
          envs[cfgop.env].config = cfgop.before

\* a load has installed a cell converted by a validator and a cell of a defaulted
\* AnyDataType
C4_Witness ==
    /\ cfgop.name = "_init_from_PyEnv"
    /\ cfgop.err = "none"
    /\ IsLoaded(cfgop.env)
    /\ \E i, j \in DOMAIN envs[cfgop.env].config.store :
          /\ envs[cfgop.env].config.store[i].value.validator = 1
          /\ envs[cfgop.env].config.store[i].value.value = PyInt(12)
          /\ envs[cfgop.env].config.store[j].value.validator > Len(EnvDescriptors)

-----------------------------------------------------------------------------
(* Properties of the proxy (specification SpecProxy) *)

\* x == y as the client writes it, for a receiver that is a native value or an
\* immutable-form proxy: what __eq__ answers, NotImplemented counting as unequal
PyEq(x, y) == MemberCall(x, "__eq__", y) = Returns(PyBool(TRUE), x)

PolicyMaskedImmutable == ~glb_show_secured_values /\ ~glb_make_secured_values_mutable
PolicyMaskedMutable == ~glb_show_secured_values /\ glb_make_secured_values_mutable

\* the client holds the canonical value it has just obtained
HoldsCanonical == cur.held /\ cur.chain = 0
\* the last member call was made on the canonical value
CalledOnCanonical == cur.held /\ cur.chain = 1 /\ op.name \in MemberNames

\* the built-in classes whose instances cannot change and that can be extended
ExtendableImmutables == {"str", "int", "float", "bool", "bytes", "tuple"}

\* C7: with reveal off and mutable off, an operation on the proxy that is the
\* canonical value of a Secret returns a plain result, never a proxy, and the proxy
\* displays as the marker and compares equal to the raw value.
C7_AnyValue ==
    /\ (PolicyMaskedImmutable /\ HoldsCanonical /\ IsProxy(cur.value)) =>
          /\ Str(cur.value) = PyStr(MASK)
          /\ PyEq(cur.value, cur.raw)
    /\ (PolicyMaskedImmutable /\ CalledOnCanonical /\ IsProxy(op.recv)
           /\ op.err = "none") =>
          ~IsProxy(op.value)

\* On the built-in classes of ExtendableImmutables the immutable form degrades as
\* the test of the Secret descriptor expects: the proxy displays as the marker,
\* reveals the raw value and compares equal to it, and a member call on it gives
\* exactly what the call gives on the raw value, a plain value and never a proxy.
ImmutableFormDegrades ==
    /\ (PolicyMaskedImmutable /\ HoldsCanonical /\ cur.raw.t \in ExtendableImmutables) =>
          /\ IsProxy(cur.value) /\ cur.value.form = "immutable"
          /\ Str(cur.value) = PyStr(MASK) /\ Repr(cur.value) = PyStr(MASK)
          /\ unmasked(cur.value) = cur.raw
          /\ PyEq(cur.value, cur.raw)
    /\ (PolicyMaskedImmutable /\ CalledOnCanonical /\ cur.raw.t \in ExtendableImmutables) =>
          /\ op.err = NativeMember(cur.raw, op.name, op.arg).err
          /\ op.value = NativeMember(cur.raw, op.name, op.arg).value
          /\ ~IsProxy(op.value)

\* the last call was forwarded by a mutable-form proxy and is not an ignored member
ForwardedCall ==
    /\ PolicyMaskedMutable
    /\ op.name \in MemberNames
    /\ IsProxy(op.recv) /\ op.recv.form = "mutable"
    /\ op.name \notin ignored_methods

\* what the member gives on the original of the receiver
OnOriginal == NativeMember(op.recv.orig, op.name, op.arg)

\* C8 as stated: with reveal off and mutable on, every forwarded member call whose
\* result r on the original is not absent and not of the ignored carrier type
\* returns a new proxy, named SecureValue, whose unmasked accessor gives r.
C8_AnyResult ==
    (/\ ForwardedCall
     /\ OnOriginal.err = "none"
     /\ OnOriginal.value.t /= "NoneType"
     /\ ~IsIgnoredClass(OnOriginal.value)) =>
        /\ op.err = "none"
        /\ TypeName(op.value) = "SecureValue"
        /\ unmasked(op.value) = OnOriginal.value

\* C8 amended: with reveal off and mutable on, every forwarded member call, at any
\* depth of a chain of calls, whose result r on the original is a str, int, float,
\* bool, list, tuple or bytes returns a new mutable-form proxy, named SecureValue,
\* whose unmasked accessor gives r; a result whose class cannot be extended (an
\* iterator, the NotImplemented sentinel of an arithmetic member) is returned as it
\* is, and NotImplemented from a comparison becomes a TypeError or a plain False.
C8_Rewrap ==
    /\ (/\ ForwardedCall
        /\ OnOriginal.err = "none"
        /\ OnOriginal.value.t \in {"str", "int", "float", "bool", "list", "tuple", "bytes"}) =>
           /\ op.err = "none"
           /\ TypeName(op.value) = "SecureValue"
           /\ op.value.form = "mutable"
           /\ unmasked(op.value) = OnOriginal.value
    /\ (/\ ForwardedCall
        /\ OnOriginal.err = "none"
        /\ OnOriginal.value.t = "iterator") =>
           op.err = "none" /\ op.value = OnOriginal.value
    /\ (/\ ForwardedCall
        /\ OnOriginal.err = "none"
        /\ OnOriginal.value.t = "NotImplementedType") =>
           CASE op.name \in compariosn_methods_with_type_error -> op.err = "TypeError"
             [] op.name \in compariosn_methods_with_return ->
                    op.err = "none" /\ op.value = PyBool(FALSE)
             [] OTHER -> op.err = "none" /\ op.value = PyNotImplemented

\* the second call of a chain: the proxy a first call returned was added to and
\* gave a proxy again
C8_Witness ==
    /\ ForwardedCall
    /\ cur.held /\ cur.chain = 2
    /\ op.name = "__add__"
    /\ op.err = "none"
    /\ TypeName(op.value) = "SecureValue"
    /\ unmasked(op.value) = OnOriginal.value

\* C9 as stated: with mutable off, only a value of one of the immutable built-in
\* types is ever wrapped in the immutable form.
C9_ImmutableOnly ==
    (/\ ~glb_make_secured_values_mutable
     /\ cur.held
     /\ IsProxy(cur.value)
     /\ cur.value.form = "immutable") =>
        unmasked(cur.value).t \in ImmutableBuiltins

-----------------------------------------------------------------------------
(* Properties of the construction and of the reads (specification SpecApp) *)

\* the construction in cfgop was given no logger and got as far as load_config
LoadingReached ==
    /\ cfgop.name = "PyAppEnv"
    /\ cfgop.value.t = "NoneType"
    /\ cfgop.stage \in {"load_config", "done"}

\* the descriptor that __load_config uses for the key of envs[e]
ValidatorOf(e, key) ==
    IF key \in DOMAIN envs[e].validators THEN descs[envs[e].validators[key]]
    ELSE NewDescriptor("Any", "none")

\* the value is one that the descriptor accepts when it has no value_validator
OtherwiseValid(d, value) ==
    set_value([d EXCEPT !.user = "none"], value, glb_show_secured_values,
              glb_make_secured_values_mutable, TRUE).err = "none"

\* the i-th item of the configuration is the first whose validator has a
\* value_validator that raises, and the items up to it are otherwise valid
UserCheckRaisesAt(e, items, i) ==
    /\ ValidatorOf(e, items[i].key).user = "raise"
    /\ \A j \in 1..i : OtherwiseValid(ValidatorOf(e, items[j].key), items[j].value)
    /\ \A j \in 1..(i - 1) : ValidatorOf(e, items[j].key).user /= "raise"

\* C19: when a PyAppEnv is constructed over an environment whose validator for a
\* key has a value_validator that raises on an otherwise valid value, the
\* construction fails with the exception that the value_validator raised, whatever
\* the class of the validator.
C19_UserExceptionPropagates ==
    (/\ LoadingReached
     /\ cfgop.before.kind = "dict"
     /\ \E i \in DOMAIN cfgop.before.items :
           UserCheckRaisesAt(cfgop.env, cfgop.before.items, i)) =>
        /\ cfgop.err = "RuntimeError"
        /\ envs[cfgop.env].config = cfgop.before

\* a construction over a SecretDataType with a raising value_validator and a
\* value it accepts has failed with the exception of the value_validator
C19_Witness ==
    /\ LoadingReached
    /\ cfgop.before.kind = "dict"
    /\ UserCheckRaisesAt(cfgop.env, cfgop.before.items, 1)
    /\ descs[1].kind = "Secret"
    /\ IsProxy(descs[1].value)
    /\ cfgop.err = "RuntimeError"

\* the operations that read one key of an EnvConfig
KeyReads == {"__getitem__", "get", "get_config_value", "__getattribute__"}

\* x is the value y, and of its type
SameValue(x, y) == x.t = y.t /\ x = y

\* C20: a read of an EnvConfig that holds cells, by cfg[key], get(key),
\* get_config_value(key), values(), items() or the attribute cfg.key, returns the
\* value stored in the cell of the key, not the cell and not anything else.
C20_ReadsCanonical ==
    /\ (cfgop.name \in KeyReads /\ cfgop.key \in ItemKeys(cfgop.before.store)) =>
          /\ cfgop.err = "none"
          /\ SameValue(cfgop.value, ItemOf(cfgop.before.store, cfgop.key).value.value)
    /\ cfgop.name = "values" =>
          /\ Len(cfgop.value) = Len(cfgop.before.store)
          /\ \A i \in DOMAIN cfgop.value :
                SameValue(cfgop.value[i], cfgop.before.store[i].value.value)
    /\ cfgop.name = "items" =>
          /\ Len(cfgop.value) = Len(cfgop.before.store)
          /\ \A i \in DOMAIN cfgop.value :
                /\ cfgop.value[i].key = cfgop.before.store[i].key
                /\ SameValue(cfgop.value[i].value, cfgop.before.store[i].value.value)

\* the reads of an EnvConfig that are to complete for every key
TotalReads == {"get", "__getitem__", "__contains__", "keys"}

\* C21: on a finalized EnvConfig get(key), cfg[key], key in cfg and keys() complete
\* without raising, for a key the collection holds and for one it does not hold.
C21_ReadsNeverRaise ==
    (cfgop.name \in TotalReads /\ cfgop.before.is_dict_initialized) => cfgop.err = "none"

\* the canonical value that the pipeline of d leaves for raw under the two flags
LoadedUnder(d, raw, show, mutable) == set_value(d, raw, show, mutable, TRUE).d.value

\* C22: a construction of a PyAppEnv assigns both flags of the process from its
\* arguments before it loads an environment: after it the flags are the arguments,
\* and every cell it built holds the value that the pipeline of its descriptor
\* gives under the arguments.
C22_PolicyBeforeLoading ==
    LoadingReached =>
        /\ glb_show_secured_values = cfgop.show
        /\ glb_make_secured_values_mutable = cfgop.mutable
        /\ cfgop.err = "none" =>
              \A i \in DOMAIN envs[cfgop.env].config.store :
                 envs[cfgop.env].config.store[i].value.value =
                    LoadedUnder(ValidatorOf(cfgop.env, ConfigItems(cfgop.before)[i].key),
                                ConfigItems(cfgop.before)[i].value, cfgop.show, cfgop.mutable)

\* the first construction of the process, with reveal off and mutable on, has
\* built a cell that holds a proxy in the mutable form
C22_Witness ==
    /\ LoadingReached
    /\ cfgop.err = "none"
    /\ envs[cfgop.env].loads = 1
    /\ ~cfgop.show /\ cfgop.mutable
    /\ \E i \in DOMAIN envs[cfgop.env].config.store :
          /\ IsProxy(envs[cfgop.env].config.store[i].value.value)
          /\ envs[cfgop.env].config.store[i].value.value.form = "mutable"

\* C23: once a PyAppEnv has been constructed, no assignment to its properties and
\* no construction of a further PyAppEnv changes either flag of the process.
C23_PolicySetOnce ==
    [][(\E e \in DOMAIN envs : IsLoaded(e)) =>
          /\ glb_show_secured_values' = glb_show_secured_values
          /\ glb_make_secured_values_mutable' = glb_make_secured_values_mutable]_vars

-----------------------------------------------------------------------------
(* Properties of the selection of the environment (specification SpecSelect) *)

\* a construction that was given no logger has ended
Constructed == cfgop.name = "PyAppEnv" /\ cfgop.value.t = "NoneType"

\* the name the arguments select: env_name when it is given, default_env otherwise
SelectedName ==
    IF cfgop.args.env_name /= NoName THEN cfgop.args.env_name ELSE cfgop.args.default_env

\* C24: over env_configs that is not empty, the environment selected is env_name
\* when that is given and default_env otherwise; when the name selected is no key
\* of env_configs the construction fails with InvalidEnvironmentConfigError; when
\* the construction succeeds env_name is that key and env is the finalized config
\* of that environment.
C24_Selection ==
    Constructed =>
        /\ SelectedName \notin ConfigNames => cfgop.err = "InvalidEnvironmentConfigError"
        /\ cfgop.err = "none" =>
              /\ SelectedName \in ConfigNames
              /\ cfgop.key = SelectedName
              /\ cfgop.env = NamedEnv(SelectedName)
              /\ envs[cfgop.env].config.kind = "EnvConfig"
              /\ envs[cfgop.env].config.is_dict_initialized

\* a construction with env_name PROD and default_env TEST has succeeded, and one
\* without env_name
C24_Witness ==
    /\ Constructed
    /\ cfgop.err = "none"
    /\ cfgop.args.env_name = AppConfigNames[2]
    /\ cfgop.args.default_env = AppConfigNames[1]
    /\ cfgop.env = 2

\* C25: after a construction with application_env_available=True, a variable of
\* the process is read through the active configuration: env.env[NAME] is its value.
C25_ApplicationEnv ==
    (Constructed /\ cfgop.err = "none" /\ cfgop.args.application_env_available) =>
        \A i \in DOMAIN os_environ :
           /\ EnvConfig_getitem(envs[cfgop.env].config, os_environ[i].key).err = "none"
           /\ EnvConfig_getitem(envs[cfgop.env].config, os_environ[i].key).value =
                 os_environ[i].value

-----------------------------------------------------------------------------
(* Properties of a descriptor constructed with convert=False (specification
   SpecTyped) *)

\* the classes whose constructor takes convert
ConvertKinds == {"Integer", "PositiveInteger", "NegativeInteger", "Float", "Boolean",
                 "List", "Dict"}

\* the call was made on a descriptor of those classes constructed with convert=False
CalledWithoutConvert ==
    call.desc /= 0 /\ Called.kind \in ConvertKinds /\ ~Called.convert

\* C26: on an Integer, PositiveInteger, NegativeInteger, Float, Boolean, List or
\* Dict descriptor with convert=False, __set_value__(raw) succeeds only when raw is
\* already of the native type of the class, the value held is then raw itself, and
\* every text fails at the type check with TypeError.
C26_NoCoercion ==
    CalledWithoutConvert =>
        /\ Accepted => /\ IsInstance(call.raw, data_type(Called))
                       /\ SameValue(Called.value, call.raw)
        /\ call.raw.t = "str" => /\ call.err = "TypeError"
                                 /\ call.stage = "validate_type"

-----------------------------------------------------------------------------
(* Properties of the forwarding wrapper of a mutable-form proxy (specification
   SpecProxy) *)

OrderingComparisons == {"__lt__", "__le__", "__gt__", "__ge__"}
EqualityComparisons == {"__eq__", "__ne__"}

\* the last call was made on a mutable-form proxy and the member of the original
\* returned
WrapperCall ==
    /\ op.name \in MemberNames
    /\ IsProxy(op.recv) /\ op.recv.form = "mutable"
    /\ OnOriginal.err = "none"

\* the result the wrapper hands back as it is
ReturnedUnwrapped ==
    \/ OnOriginal.value.t = "NoneType"
    \/ IsIgnoredClass(OnOriginal.value)
    \/ op.name \in ignored_methods

\* C27: in the forwarding wrapper of a mutable-form proxy, a result that is None,
\* of the ignored carrier type or produced by an ignored member (__len__) is
\* returned unwrapped, before any other rule; otherwise NotImplemented from
\* __lt__, __le__, __gt__ or __ge__ raises TypeError and NotImplemented from
\* __eq__ or __ne__ gives a plain False.
C27_ComparisonRules ==
    WrapperCall =>
        IF ReturnedUnwrapped
        THEN op.err = "none" /\ SameValue(op.value, OnOriginal.value)
        ELSE OnOriginal.value.t = "NotImplementedType" =>
                /\ op.name \in OrderingComparisons => op.err = "TypeError"
                /\ op.name \in EqualityComparisons =>
                      op.err = "none" /\ SameValue(op.value, PyBool(FALSE))

\* a proxy of a text was compared with >= to a number
C27_Witness ==
    /\ WrapperCall
    /\ op.recv.orig.t = "str"
    /\ op.name = "__ge__"
    /\ op.arg.t = "int"
    /\ op.err = "TypeError"

-----------------------------------------------------------------------------
(* Properties of descriptors that are shared and set again (specification
   SpecReuse) *)

\* what line 252 stores in the descriptor before any stage runs
StoredForm(d, raw) ==
    convert_to_secure_value(d, raw, glb_show_secured_values,
                            glb_make_secured_values_mutable).value

\* the rejected input as the descriptor holds it: as it was stored when the
\* precheck or the conversion raised, converted when a later stage raised
HeldAfterRejection(d, raw, stage) ==
    IF stage \in {"precheck_empty_value", "convert_type"} THEN StoredForm(d, raw)
    ELSE convert_type([d EXCEPT !.value = StoredForm(d, raw), !.has_value = TRUE],
                      logger_set).d.value

\* the step is a call of __set_value__ by the client, and one of the five stages
\* that follow the assignment of line 252 raised
RejectedStep ==
    /\ \A e \in DOMAIN envs : envs'[e].loads = envs[e].loads
    /\ call'.desc /= 0
    /\ call'.err /= "none"
    /\ call'.stage \in {"precheck_empty_value", "convert_type", "validate_type",
                        "value_validator", "user_validator"}

C30_CellTracksDescriptor ==
    \A e \in DOMAIN envs :
       IsLoaded(e) =>
          \A i \in DOMAIN envs[e].config.store :
             SameValue(envs[e].config.store[i].value.value,
                       descs[envs[e].config.store[i].value.validator].value)

-----------------------------------------------------------------------------
(* Properties of one load of an environment (specification SpecEnv) *)

\* the last operation was envs[cfgop.env]._init_from_PyEnv()
LoadReturned == cfgop.name = "_init_from_PyEnv"

\* the descriptor __load_config uses for the key: its validator, else a new AnyDataType
DescriptorOfKey(e, key) ==
    IF key \in DOMAIN envs[e].validators THEN descs[envs[e].validators[key]]
    ELSE NewDescriptor("Any", "none")

\* the pipeline of some key of the mapping raises
SomeKeyRaises(e, config) ==
    \E i \in DOMAIN ConfigItems(config) :
       set_value(DescriptorOfKey(e, ConfigItems(config)[i].key), ConfigItems(config)[i].value,
                 glb_show_secured_values, glb_make_secured_values_mutable,
                 logger_set).err /= "none"

\* C29: a load in which the pipeline of some key raises ends with an exception
\* and leaves config the mapping it was, and no EnvConfig over some of the keys is
\* installed; a load in which every key passes replaces config by a finalized
\* EnvConfig over exactly the keys of the mapping.
C29_AllOrNothing ==
    LoadReturned =>
        /\ cfgop.err /= "none" => envs[cfgop.env].config = cfgop.before
        /\ (cfgop.before.kind \in {"dict", "EnvConfig"} /\ SomeKeyRaises(cfgop.env, cfgop.before)) =>
              cfgop.err /= "none"
        /\ (cfgop.before.kind \in {"dict", "EnvConfig"} /\ ~SomeKeyRaises(cfgop.env, cfgop.before)) =>
              /\ cfgop.err = "none"
              /\ IsLoaded(cfgop.env)
              /\ envs[cfgop.env].config.is_dict_initialized
              /\ ItemKeys(envs[cfgop.env].config.store) = ItemKeys(ConfigItems(cfgop.before))

\* the load of a mapping of two keys raised at the second key, after the
\* validator of the first had accepted its value
C29_Witness ==
    /\ LoadReturned
    /\ cfgop.err /= "none"
    /\ envs[cfgop.env].config.kind = "dict"
    /\ Len(envs[cfgop.env].config.items) = 2
    /\ EnvKeys[1] \in DOMAIN envs[cfgop.env].validators
    /\ envs[cfgop.env].validators[EnvKeys[1]] = 1
    /\ envs[cfgop.env].config.items[1].value = PyStr(<<"1", "2">>)
    /\ descs[1].has_value

====
